---- MODULE Spec2Model ----
(***************************************************************************)
(* Ingestion-and-reconciliation pipeline of giggle: the orchestrator       *)
(* (ingestion/main.py) runs the registered adapters in parallel, collects  *)
(* their results, and the Importer (ingestion/services/importer.py)        *)
(* filters, deduplicates, upserts and then deletes the rows of successful  *)
(* sources that were not found in the run.                                 *)
(*                                                                         *)
(* Strings are sequences of one-character strings, so that the substring   *)
(* test (`pat in url`) and the case-insensitive store filter (ILIKE) are   *)
(* computed, not assumed.  "sk" stands for "songkick.com", "ep" for        *)
(* "eplus.jp" and "pi" for "pia.jp".                                       *)
(*                                                                         *)
(* A field value carries its Python type: None, Str(s), Date(d),           *)
(* Time(h, tz), List(l), Dict(m).  A one-letter text stands for a name     *)
(* ("t" Tokyo, "v" a venue), "#" starts a UUID.                            *)
(*                                                                         *)
(* run_connector standardizes an adapter's events in the adapter's thread  *)
(* with the Standardizer (ingestion/services/standardizer.py): the calls   *)
(* std.get_location_names and std.get_venue_names of main.py are modelled  *)
(* by get_location_codes and get_venue_code, the lookups the class has.    *)
(* There is no Google Maps key, so localize_pending changes no row.        *)
(***************************************************************************)
EXTENDS Integers, Sequences, FiniteSets, TLC

(* ------------------------------ bounds --------------------------------- *)
\* number of ingestion runs (the batch job is started again and again)
MaxRuns == 2
\* most events one adapter call returns
MaxEvents == 1

(* ------------------------- strings and patterns ------------------------ *)
\* str.lower() on one character
LowerChar(c) == IF c = "S" THEN "s" ELSE IF c = "E" THEN "e" ELSE c

\* str.lower()
Lower(s) == [i \in 1..Len(s) |-> LowerChar(s[i])]

\* Python `pat in url`: case-sensitive substring test
Contains(url, pat) ==
  \E i \in 1..(Len(url) - Len(pat) + 1) : SubSeq(url, i, i + Len(pat) - 1) = pat

\* PostgREST .ilike("url", "%pat%"): case-insensitive substring test
ILike(url, pat) == Contains(Lower(url), Lower(pat))

\* the source -> URL-pattern registry of the sync deletion
patterns ==
  [Songkick |-> <<"s", "k">>, Eplus |-> <<"e", "p">>, Pia |-> <<"p", "i">>]

\* patterns.get(source): the pattern, or <<>> (None) for an unknown source
PatternOf(source) ==
  IF source \in DOMAIN patterns THEN patterns[source] ELSE <<>>

(* --------------------------- field values ------------------------------ *)
\* Optional[...] = None
None == [kind |-> "none"]

\* a str value: its characters
Str(s) == [kind |-> "str", v |-> s]

\* a list value: its items, each a Str, a Date or a Time
List(l) == [kind |-> "list", v |-> l]

\* a datetime.date value: its day number
Date(d) == [kind |-> "date", v |-> d]

\* Python truthiness of a field value: None, "" and [] are falsy
Truthy(x) ==
  IF x.kind = "none" THEN FALSE
  ELSE IF x.kind \in {"str", "list"} THEN x.v # <<>>
  ELSE TRUE

\* a dict value: its items
Dict(m) == [kind |-> "dict", v |-> m]

\* date.today() in the reference timezone, as a day number
Today == 2

\* a date text "YYYY-MM-DD" is written as the one digit of its day number
DigitVal == [c \in {"0", "1", "2", "3", "4", "5", "6", "7", "8", "9"} |->
               CASE c = "0" -> 0 [] c = "1" -> 1 [] c = "2" -> 2 [] c = "3" -> 3
                 [] c = "4" -> 4 [] c = "5" -> 5 [] c = "6" -> 6 [] c = "7" -> 7
                 [] c = "8" -> 8 [] c = "9" -> 9]

\* datetime.strptime(s[:10], '%Y-%m-%d') does not raise ValueError: the
\* prefix of date length is a date text and nothing else
Parses(s) == s # <<>> /\ s[1] \in DOMAIN DigitVal

\* datetime.strptime(s[:10], '%Y-%m-%d').date(), for a text that parses
ParsedDate(s) == DigitVal[s[1]]

\* str.split(): the maximal runs of non-whitespace characters
RECURSIVE Split(_, _)
Split(s, word) ==
  IF s = <<>> THEN (IF word = <<>> THEN <<>> ELSE <<word>>)
  ELSE IF Head(s) = " "
       THEN (IF word = <<>> THEN <<>> ELSE <<word>>) \o Split(Tail(s), <<>>)
       ELSE Split(Tail(s), Append(word, Head(s)))

(* ----------------------------- clean_text ------------------------------- *)
\* A text is a sequence of characters, each named by a string: "&", ";",
\* " ", letters, "fw&" and "fwa" (the full-width forms of "&" and "a"),
\* "nbsp" (U+00A0) and "zwsp" (U+200B, one of the hidden characters).  A
\* character reference is "&", a name of one letter and an optional ";":
\* "a" names amp, "n" names nbsp, "z" names #8203.
EntityChar == [a |-> "&", n |-> "nbsp", z |-> "zwsp"]

\* html.unescape: one pass from left to right; every character reference
\* is replaced by its character and the replacement is not read again
RECURSIVE Unescape(_)
Unescape(s) ==
  IF s = <<>> THEN <<>>
  ELSE IF Head(s) = "&" /\ Len(s) >= 2 /\ s[2] \in DOMAIN EntityChar
       THEN <<EntityChar[s[2]]>>
              \o Unescape(SubSeq(s, IF Len(s) >= 3 /\ s[3] = ";" THEN 4 ELSE 3, Len(s)))
       ELSE <<Head(s)>> \o Unescape(Tail(s))

\* unicodedata.normalize('NFKC', c) for one character: full-width forms
\* fold to half-width, the no-break space becomes a space
NFKCChar(c) ==
  CASE c = "fw&" -> "&"
    [] c = "fwa" -> "a"
    [] c = "nbsp" -> " "
    [] OTHER -> c

\* unicodedata.normalize('NFKC', text)
NFKC(s) == [i \in 1..Len(s) |-> NFKCChar(s[i])]

\* the characters removed by the hidden_chars loop
hidden_chars == {"zwsp"}

\* text.replace(char, '') for every hidden character
RECURSIVE RemoveHidden(_)
RemoveHidden(s) ==
  IF s = <<>> THEN <<>>
  ELSE (IF Head(s) \in hidden_chars THEN <<>> ELSE <<Head(s)>>)
         \o RemoveHidden(Tail(s))

\* str.isspace() for one character
IsSpace(c) == c \in {" ", "nbsp"}

\* str.strip(): leading and trailing whitespace removed
RECURSIVE Strip(_)
Strip(s) ==
  IF s = <<>> THEN <<>>
  ELSE IF IsSpace(Head(s)) THEN Strip(Tail(s))
  ELSE IF IsSpace(s[Len(s)]) THEN Strip(SubSeq(s, 1, Len(s) - 1))
  ELSE s

\* text.replace('\xa0', ' ')
ReplaceNbsp(s) == [i \in 1..Len(s) |-> IF s[i] = "nbsp" THEN " " ELSE s[i]]

\* the body of clean_text for a non-empty str: unescape, normalize, remove
\* the hidden characters, strip, replace the no-break space
CleanChars(s) == ReplaceNbsp(Strip(RemoveHidden(NFKC(Unescape(s)))))

\* clean_text(text): None for None and "", else the cleaned text, or None
\* when nothing is left of it
clean_text(text) ==
  IF ~Truthy(text) THEN None
  ELSE LET t == CleanChars(text.v)
       IN IF t # <<>> THEN Str(t) ELSE None

(* ------------------------- Event construction -------------------------- *)
\* a keyword argument that is not given to Event(...)
Missing == [kind |-> "missing"]

\* a datetime.time value: its hour, and its tzinfo ("naive" for none, else
\* a fixed offset such as "+09:00" or the name of a zone)
Time(h, tz) == [kind |-> "time", v |-> h, tz |-> tz]

\* the sequence without its repeated items, the first of each kept in place
RECURSIVE DedupSeq(_, _)
DedupSeq(items, seen) ==
  IF items = <<>> THEN <<>>
  ELSE IF Head(items) \in seen THEN DedupSeq(Tail(items), seen)
  ELSE <<Head(items)>> \o DedupSeq(Tail(items), seen \cup {Head(items)})

\* the items of a list cleaned, in order, those empty after cleaning left out
RECURSIVE CleanItems(_)
CleanItems(items) ==
  IF items = <<>> THEN <<>>
  ELSE LET c == clean_text(Head(items))
       IN (IF Truthy(c) THEN <<c>> ELSE <<>>) \o CleanItems(Tail(items))

\* Event.validate_text: a list is cleaned item by item and deduplicated,
\* and returned as it is then; any other value goes through clean_text
validate_text(v) ==
  IF v.kind = "list" THEN List(DedupSeq(CleanItems(v.v), {}))
  ELSE clean_text(v)

\* Event.validate_date: a list is deduplicated, any other value is returned
validate_date(v) ==
  IF v.kind = "list" THEN List(DedupSeq(v.v, {})) ELSE v

\* Event.validate_time: None stays None, a single value becomes a list
validate_time(v) ==
  IF v.kind = "none" THEN None
  ELSE IF v.kind = "list" THEN v ELSE List(<<v>>)

\* pydantic's parse of one item of `time`: a time is taken, a text is
\* parsed (here: the digit of its hour), anything else is rejected
TimeParses(x) == x.kind = "time" \/ (x.kind = "str" /\ Parses(x.v))

\* the time an accepted item is parsed to
ParsedTime(x) == IF x.kind = "time" THEN x ELSE Time(ParsedDate(x.v), "naive")

\* the value of a field of Event(...): the default None when not given
Given(raw, field) == IF raw[field].kind = "missing" THEN None ELSE raw[field]

\* the zone names ZoneInfo accepts
ValidZones == {"Asia/Tokyo", "Europe/London"}

\* the days up to this one stand for the summers in which Japan observed
\* summer time (1948 to 1951); the zone database knows them
JapanSummerTimeEnd == 0

\* variant: Tokyo observes summer time to this day
ZoneOffset_dst(zone, d) ==
  IF zone = "Asia/Tokyo" THEN (IF d <= Today THEN "+10:00" ELSE "+09:00")
  ELSE IF d <= Today THEN "+01:00" ELSE "+00:00"

\* resolved_tz.utcoffset(dt_aware): the UTC offset of a zone on the day `d`.
\* Tokyo has had no summer time since 1951; in London summer time ends in
\* the night after today, so that today and tomorrow have different offsets.
ZoneOffset(zone, d) ==
  IF zone = "Asia/Tokyo"
  THEN (IF d <= JapanSummerTimeEnd THEN "+10:00" ELSE "+09:00")
  ELSE IF d <= Today THEN "+01:00" ELSE "+00:00"

\* `if offset:` a timedelta of zero is falsy
OffsetTruthy(offset) == offset # "+00:00"

\* t.replace(tzinfo=timezone(offset)) when the offset is truthy, else
\* t.replace(tzinfo=resolved_tz), which keeps the named zone
WithZone(t, zone, d) ==
  IF OffsetTruthy(ZoneOffset(zone, d))
  THEN Time(t.v, ZoneOffset(zone, d)) ELSE Time(t.v, zone)

\* ref_date of attach_timezone: today for None and for a text that is not
\* a date, the date of a date text, else the date given
RefDate(reference_date) ==
  IF reference_date.kind = "date" THEN reference_date.v
  ELSE IF reference_date.kind = "str" /\ Parses(reference_date.v)
            /\ Len(reference_date.v) = 1
  THEN ParsedDate(reference_date.v)
  ELSE Today

\* attach_timezone(t, tz_name, reference_date): an aware time is returned
\* as it is; a naive one gets the zone's offset on the reference date; when
\* ZoneInfo does not know the name the exception is logged and t returned
attach_timezone(t, tz_name, reference_date) ==
  IF t.tz # "naive" THEN t
  ELSE IF tz_name \notin ValidZones THEN t
  ELSE WithZone(t, tz_name, RefDate(reference_date))

\* the values of country_code that mean Japan (compared in upper case)
JapanCodes == {"JP", "jp", "JAPAN", "Japan", "japan", "JPN", "jpn"}

\* geo.geocode(name) followed by tf.timezone_at: the zone the geocoder
\* gives for a name, "" when it finds nothing or fails
Geocode(geo, name) == IF name \in DOMAIN geo THEN geo[name] ELSE ""

\* get_timezone_from_location(location_name, country_code): None ("") for
\* an empty name; Asia/Tokyo for a Japanese country code or a name that
\* contains a prefecture name or "Tokyo"; else what the geocoder finds
get_timezone_from_location(location_name, country_code, geo) ==
  IF location_name = <<>> THEN ""
  ELSE IF country_code \in JapanCodes THEN "Asia/Tokyo"
  ELSE IF Contains(Strip(location_name), <<"T", "to">>)
            \/ Contains(Strip(location_name), <<"t">>)
  THEN "Asia/Tokyo"
  ELSE Geocode(geo, Strip(location_name))

\* loc_str / v_str: the text itself, or the first item of a list (None,
\* here <<>>, for an empty value)
FirstText(x) ==
  IF ~Truthy(x) THEN <<>>
  ELSE IF x.kind = "list" THEN x.v[1].v ELSE x.v

\* tz_name of resolve_timezone: the zone of the location, and when there is
\* none the zone of the venue
ZoneOfEvent(self, geo) ==
  IF get_timezone_from_location(FirstText(self.location), "", geo) # ""
  THEN get_timezone_from_location(FirstText(self.location), "", geo)
  ELSE get_timezone_from_location(FirstText(self.venue), "", geo)

\* Event.resolve_timezone (the model validator run after the fields are
\* set): nothing without times or location; else the zone found for the
\* location or the venue is attached to every time, without a reference
\* date (the date worked out from self.date is not passed on)
resolve_timezone(self, geo) ==
  IF ~Truthy(self.time) \/ ~Truthy(self.location) \/ ZoneOfEvent(self, geo) = ""
  THEN self
  ELSE [self EXCEPT !.time =
          List([i \in DOMAIN self.time.v |->
                  attach_timezone(self.time.v[i], ZoneOfEvent(self, geo), None)])]

\* the result of a construction that raised ValidationError
ValidationError == [ok |-> FALSE]

\* Event(**raw): ValidationError when url is not given or None, or when an
\* item of time does not parse; else the Event with its fields validated
EventConstruct(raw, geo) ==
  LET url == Given(raw, "url")
      time == validate_time(Given(raw, "time"))
  IN IF url.kind # "str" THEN ValidationError
     ELSE IF time.kind = "list" /\ \E i \in DOMAIN time.v : ~TimeParses(time.v[i])
     THEN ValidationError
     ELSE [ok |-> TRUE,
           event |-> resolve_timezone(
             [url |-> url.v,
              event |-> validate_text(Given(raw, "event")),
              date |-> validate_date(Given(raw, "date")),
              time |-> IF time.kind = "list"
                       THEN List([i \in DOMAIN time.v |-> ParsedTime(time.v[i])])
                       ELSE None,
              venue |-> validate_text(Given(raw, "venue")),
              location |-> validate_text(Given(raw, "location")),
              metadata |-> Given(raw, "metadata")], geo)]

(* ----------------------------- Standardizer ---------------------------- *)
\* Japanese characters are named by strings as well: "jcomma" is the
\* ideographic comma, "middot" the middle dot, "to", "do", "fu" and "ken"
\* the four prefecture suffixes; a UUID is written "#" and one character.

\* what a call gives back: a value, or an exception
Ok(x) == [raised |-> FALSE, v |-> x]
Raise == [raised |-> TRUE]

\* the locations table (pre-seeded): Tokyo and London
locations ==
  {[id |-> <<"#", "T">>, name_ja |-> <<"T", "to">>, name_en |-> <<"t">>,
    timezone |-> "Asia/Tokyo"],
   [id |-> <<"#", "L">>, name_ja |-> <<"L">>, name_en |-> <<"l">>,
    timezone |-> "Europe/London"]}

\* locations_ja.get(name), locations_en.get(name): <<>> for no entry
locations_ja(name) ==
  IF \E l \in locations : l.name_ja = name
  THEN (CHOOSE l \in locations : l.name_ja = name).id ELSE <<>>
locations_en(name) ==
  IF \E l \in locations : l.name_en = name
  THEN (CHOOSE l \in locations : l.name_en = name).id ELSE <<>>

\* Standardizer.is_uuid
is_uuid(val) == val # <<>> /\ val[1] = "#"

\* str.split(sep) / re.split: the parts between the separators, the empty
\* ones included
RECURSIVE SplitOn(_, _, _)
SplitOn(s, seps, part) ==
  IF s = <<>> THEN <<part>>
  ELSE IF Head(s) \in seps THEN <<part>> \o SplitOn(Tail(s), seps, <<>>)
  ELSE SplitOn(Tail(s), seps, Append(part, Head(s)))

\* [p.strip() for p in parts]
StripAll(parts) == [i \in DOMAIN parts |-> Strip(parts[i])]

\* [p for p in parts if p]
RECURSIVE NonEmpty(_)
NonEmpty(parts) ==
  IF parts = <<>> THEN <<>>
  ELSE (IF Head(parts) # <<>> THEN <<Head(parts)>> ELSE <<>>) \o NonEmpty(Tail(parts))

\* the prefecture suffixes, in the order they are tried
suffixes == <<"to", "do", "fu", "ken">>

\* the suffix loop of get_location_codes from suffix number k on
RECURSIVE SuffixMatch(_, _)
SuffixMatch(part, k) ==
  IF k > Len(suffixes) THEN <<>>
  ELSE LET lid == IF part[Len(part)] = suffixes[k]
                  THEN locations_ja(SubSeq(part, 1, Len(part) - 1))
                  ELSE locations_ja(Append(part, suffixes[k]))
       IN IF lid # <<>> THEN lid ELSE SuffixMatch(part, k + 1)

\* the id found for one part: by Japanese name, by English name, by suffix
LocationId(part) ==
  IF locations_ja(part) # <<>> THEN locations_ja(part)
  ELSE IF locations_en(part) # <<>> THEN locations_en(part)
  ELSE SuffixMatch(part, 1)

\* the loop over parts: the ids found, each once, in order
RECURSIVE FoundedIds(_, _)
FoundedIds(parts, seen_ids) ==
  IF parts = <<>> THEN <<>>
  ELSE LET lid == LocationId(Head(parts))
       IN IF lid # <<>> /\ lid \notin seen_ids
          THEN <<Str(lid)>> \o FoundedIds(Tail(parts), seen_ids \cup {lid})
          ELSE FoundedIds(Tail(parts), seen_ids)

\* Standardizer.get_location_codes(raw_loc): None for a falsy value; a
\* list has no split() (AttributeError); a text of UUIDs is returned as the
\* list of its parts; else the text is cleaned (None cannot be split:
\* TypeError), split, and the ids of the known parts are returned, or None
get_location_codes(raw_loc) ==
  IF ~Truthy(raw_loc) THEN Ok(None)
  ELSE IF raw_loc.kind # "str" THEN Raise
  ELSE LET potential_ids == StripAll(SplitOn(raw_loc.v, {","}, <<>>))
           normalized == clean_text(raw_loc)
       IN IF \A i \in DOMAIN potential_ids :
               potential_ids[i] # <<>> => is_uuid(potential_ids[i])
          THEN Ok(List([i \in DOMAIN potential_ids |-> Str(potential_ids[i])]))
          ELSE IF normalized.kind = "none" THEN Raise
          ELSE LET parts == NonEmpty(StripAll(
                              SplitOn(normalized.v,
                                      {"/", ",", "jcomma", "middot", "&"}, <<>>)))
                   founded_ids == FoundedIds(parts, {})
               IN IF founded_ids = <<>> THEN Ok(None) ELSE Ok(List(founded_ids))

\* Standardizer.get_location_timezone(location_id): the zone registered for
\* the id, or for the first id of a list; "" for None
get_location_timezone(location_id) ==
  IF ~Truthy(location_id) THEN ""
  ELSE LET target_id == IF location_id.kind = "list"
                        THEN location_id.v[1].v ELSE location_id.v
       IN IF \E l \in locations : l.id = target_id
          THEN (CHOOSE l \in locations : l.id = target_id).timezone ELSE ""

\* venues_map.get(name): <<>> for no entry
VenueId(vmap, name) ==
  IF \E m \in vmap : m.name = name
  THEN (CHOOSE m \in vmap : m.name = name).id ELSE <<>>

\* str(uuid.uuid4()): an id that no earlier call has returned; one is made
\* for a name at most once in a run, the run's map keeps it
NewId(name, r) ==
  <<"#">> \o name \o <<CHOOSE c \in DOMAIN DigitVal : DigitVal[c] = r>>

\* Standardizer.get_venue_code(raw_venue) with _create_placeholder: None
\* for a falsy value; a list has no lower() (AttributeError); a UUID is
\* returned; else the cleaned name is looked up in venues_map, and when it
\* is not there a new id is put into the map and a row is inserted into
\* the venues table.  Gives the value, the map and the rows to insert.
get_venue_code(raw_venue, vmap, r) ==
  IF ~Truthy(raw_venue) THEN [raised |-> FALSE, v |-> None, vmap |-> vmap, insert |-> {}]
  ELSE IF raw_venue.kind # "str"
  THEN [raised |-> TRUE, v |-> None, vmap |-> vmap, insert |-> {}]
  ELSE IF is_uuid(raw_venue.v)
  THEN [raised |-> FALSE, v |-> raw_venue, vmap |-> vmap, insert |-> {}]
  ELSE LET normalized == clean_text(raw_venue)
           name == IF normalized.kind = "none" THEN <<>> ELSE normalized.v
           vid == VenueId(vmap, name)
           new_id == NewId(name, r)
       IN IF vid # <<>>
          THEN [raised |-> FALSE, v |-> Str(vid), vmap |-> vmap, insert |-> {}]
          ELSE [raised |-> FALSE, v |-> Str(new_id),
                vmap |-> vmap \cup {[name |-> name, id |-> new_id]},
                insert |-> {[id |-> new_id, variation |-> <<name>>]}]

\* clean_text(var) as a key of venues_map
CleanKey(name) ==
  IF clean_text(Str(name)).kind = "none" THEN <<>> ELSE clean_text(Str(name)).v

\* Standardizer._load_caches, venues part: every variation of every row,
\* cleaned, is a key of venues_map
LoadVenues(table) ==
  UNION {{[name |-> CleanKey(row.variation[i]), id |-> row.id] :
            i \in DOMAIN row.variation} : row \in table}

(* -------------------- run_connector: standardization ------------------- *)
\* pytz.country_timezones.get(country): the first zone of the country
country_timezones(country) ==
  CASE country = "JP" -> "Asia/Tokyo"
    [] country = "GB" -> "Europe/London"
    [] OTHER -> ""

\* e.metadata.get('country') if e.metadata else None: "" for None
Country(e) ==
  IF e.metadata.kind = "dict" /\ \E kv \in e.metadata.v : kv[1] = "country"
  THEN (CHOOSE kv \in e.metadata.v : kv[1] = "country")[2] ELSE ""

\* the zone resolved for an event of source c: the zone registered for its
\* location if ZoneInfo accepts it, else, for Songkick only, the first zone
\* of the country in its metadata; "" when there is none
ResolvedZone(c, e) ==
  LET loc_tz_str == get_location_timezone(e.location)
      country == IF Country(e) \in {"japan", "Japan", "JAPAN"} THEN "JP" ELSE Country(e)
  IN IF loc_tz_str \in ValidZones THEN loc_tz_str
     ELSE IF c = "Songkick" /\ country_timezones(country) \in ValidZones
     THEN country_timezones(country)
     ELSE ""

\* target_date: the first item of a non-empty date list, or the date or
\* str itself; a str is parsed when it is a date text, and kept else
TargetDate(e) ==
  LET d == IF e.date.kind = "list"
           THEN (IF e.date.v # <<>> THEN e.date.v[1] ELSE None)
           ELSE IF e.date.kind \in {"date", "str"} THEN e.date ELSE None
  IN IF d.kind = "str" /\ Parses(d.v) /\ Len(d.v) = 1 THEN Date(ParsedDate(d.v))
     ELSE d

\* the new_times loop: an aware time is kept; a naive one gets the fixed
\* offset of the zone on the target date, or the named zone when there is
\* no usable target date or the offset is falsy
NewTimes(e, resolved_tz) ==
  [i \in DOMAIN e.time.v |->
     IF e.time.v[i].tz # "naive" THEN e.time.v[i]
     ELSE IF Truthy(TargetDate(e)) /\ TargetDate(e).kind = "date"
     THEN WithZone(e.time.v[i], resolved_tz, TargetDate(e).v)
     ELSE Time(e.time.v[i].v, resolved_tz)]

\* the timezone resolution of run_connector for one event
StandardizeTime(c, e) ==
  IF ~Truthy(e.time) \/ ResolvedZone(c, e) = "" THEN e
  ELSE [e EXCEPT !.time = List(NewTimes(e, ResolvedZone(c, e)))]

\* one round of the loop `for e in events`, given what get_location_codes
\* and get_venue_code gave: location, venue, times
StandardizeWith(c, e, vmap, loc, ven) ==
  IF loc.raised \/ ven.raised
  THEN [raised |-> TRUE, e |-> e, vmap |-> vmap, insert |-> {}]
  ELSE [raised |-> FALSE,
        e |-> StandardizeTime(c, [e EXCEPT !.location = loc.v, !.venue = ven.v]),
        vmap |-> ven.vmap, insert |-> ven.insert]

\* one round of the loop `for e in events`; the location is looked up
\* first, and the venue only if that did not raise
StandardizeEvent(c, e, vmap, r) ==
  StandardizeWith(c, e, vmap, get_location_codes(e.location),
                  IF get_location_codes(e.location).raised
                  THEN [raised |-> TRUE, v |-> None, vmap |-> vmap, insert |-> {}]
                  ELSE get_venue_code(e.venue, vmap, r))

\* the loop after its first round h, given what the later rounds t gave
StandardizeJoin(h, t) ==
  [raised |-> t.raised,
   events |-> IF t.raised THEN <<>> ELSE <<h.e>> \o t.events,
   vmap |-> t.vmap, insert |-> h.insert \cup t.insert]

\* the loop `for e in events`: the events standardized in order, until one
\* raises; the venue rows inserted on the way stay inserted
RECURSIVE StandardizeAll(_, _, _, _)
RECURSIVE StandardizeRest(_, _, _, _)
StandardizeRest(c, events, h, r) ==
  IF h.raised
  THEN [raised |-> TRUE, events |-> <<>>, vmap |-> h.vmap, insert |-> h.insert]
  ELSE StandardizeJoin(h, StandardizeAll(c, Tail(events), h.vmap, r))

StandardizeAll(c, events, vmap, r) ==
  IF events = <<>>
  THEN [raised |-> FALSE, events |-> <<>>, vmap |-> vmap, insert |-> {}]
  ELSE StandardizeRest(c, events, StandardizeEvent(c, Head(events), vmap, r), r)

(* ------------------------------ adapters ------------------------------- *)
\* the connector classes the run dispatches
Connectors == {"Songkick", "Eplus"}

U_sk1 == <<"s", "k", "1">>
U_SK1 == <<"S", "k", "1">>
U_skep == <<"s", "k", "e", "p">>
U_ep1 == <<"e", "p", "1">>
U_x1 == <<"x", "1">>

\* Event: `url` is a string; every other field is absent (None), one value
\* or a list of values.  `event` stands for the text fields (event, ticket,
\* performer, image), which share one validator and one conversion.
Ev(u, t, d, m) ==
  [url |-> u, event |-> Str(<<t>>), date |-> Date(d), time |-> None,
   venue |-> None, location |-> None,
   metadata |-> IF m = {} THEN None ELSE Dict(m)]

\* what one listing of each source can look like (an adapter passes on the
\* url the source gives it, so a url need not carry the source's own domain)
Listings ==
  [Songkick |-> { Ev(U_sk1, "a", Today + 1, {<<"country", "JP">>}),
                  Ev(U_sk1, "b", Today - 1, {}),
                  Ev(U_SK1, "a", Today + 1, {}),
                  Ev(U_skep, "a", Today + 1, {}) },
   Eplus    |-> { Ev(U_ep1, "a", Today + 1, {}),
                  Ev(U_skep, "b", Today + 1, {}),
                  Ev(U_x1, "a", Today, {}) }]

\* sequences over S of length at most n
SeqsUpTo(S, n) == UNION {[1..k -> S] : k \in 0..n}

\* the urls of a list of events
UrlsOf(events) == {events[i].url : i \in 1..Len(events)}

(* ------------------------------- state --------------------------------- *)
VARIABLES
  store,              \* the events table: a set of rows
  run,                \* number of the current run
  dry_run,            \* args.dry_run of the current run
  pc,                 \* position of main / save_results
  task,               \* per connector: "running", "finished", "collected"
  fetched,            \* per connector: the events get_events returned
  result,             \* per connector: the events run_connector returned
  outcome,            \* per connector: "none", "raise", "ok", "cut" (the adapter
                      \* returned what it had when an outage stopped it), or
                      \* "std_raise" (it returned, the standardization raised)
  completed,          \* futures in completion order, not yet collected
  all_events,         \* main.all_events
  successful_sources, \* main.successful_sources
  unique_events,      \* save_results.unique_events
  source_url_map,     \* save_results.source_url_map: <<source, found urls>> in order
  log,                \* requests sent to the store in this run
  store0,             \* the store when the run started
  venues,             \* the venues table: a set of rows
  venues_map,         \* Standardizer.venues_map: entries cleaned name -> venue id
  arg,                \* the argument of a function applied on its own
  ret,                \* what that function returned
  consecutive_failures, \* EplusConnector.consecutive_failures
  circuit_open,       \* EplusConnector.circuit_open
  worker,             \* per item of the page: where its _process_item call stands
  yielded,            \* the futures as_completed has yielded to get_events
  eplus_events,       \* EplusConnector.get_events: all_events
  streak,             \* sub-fetches that gave up since the last 200 or 404
  tripped,            \* the streak has reached max_consecutive_failures
  calls,              \* get_events calls made on the connector object
  attempt,            \* a fetch: the attempt of the retry loop that is running
  resent,             \* a fetch: retries the session made for this attempt
  backoff,            \* a fetch: _check_exclusion.backoff
  sent,               \* a fetch: the status each request sent got, in order
  delays,             \* a fetch: the seconds slept between the attempts
  stack,              \* PiaConnector._deep_fetch_and_expand: the calls that are open
  fetches,            \* per page url: the requests sent for it
  page_number,        \* a page loop: page
  pf_code,            \* PiaConnector.get_events: pf_code
  collected,          \* a page loop: the events collected (all_events, raw_events)
  answer,             \* a page loop: what the source answered for the last page
  thread,             \* per adapter thread: where its get_venue_code call stands
  lock,               \* Standardizer.lock: the thread that holds it, 0 when free
  db_page,            \* _delete_missing_events: page
  db_set,             \* _delete_missing_events: db_urls
  del_list,           \* _delete_missing_events: to_delete
  chunk_i             \* _delete_missing_events: i, the start of the next chunk

\* the variables of the Eplus adapter's circuit breaker
breaker == <<consecutive_failures, circuit_open, worker, yielded, eplus_events,
             streak, tripped, calls>>

\* the variables of one fetch with its retries
retrying == <<attempt, resent, backoff, sent, delays>>

\* the variables of the expansion of one Pia listing
expanding == <<stack, fetches>>

\* the variables of an adapter's page loop
paging == <<page_number, pf_code, collected, answer>>

\* the variables of the threads that look up a venue
caching == <<thread, lock>>

\* the variables of the reconciliation of one source
deleting == <<db_page, db_set, del_list, chunk_i>>

\* the variables of the adapters' fetch loops and threads, and of the
\* reconciliation of one source
fetchers == <<retrying, expanding, paging, caching, deleting>>

vars == <<store, run, dry_run, pc, task, fetched, result, outcome, completed, all_events,
          successful_sources, unique_events, source_url_map, log, store0,
          venues, venues_map, arg, ret, breaker, fetchers>>

\* no fetch is going on
RetryingAtRest ==
  /\ attempt = 0
  /\ resent = 0
  /\ backoff = 0
  /\ sent = <<>>
  /\ delays = <<>>

\* most pages a Pia listing can link to
MaxPages == 3

\* the page urls: 1 is the page of the listing
Pages == 1..MaxPages

\* no listing is expanded
ExpandingAtRest ==
  /\ stack = <<>>
  /\ fetches = [p \in Pages |-> 0]

\* no page loop is running
PagingAtRest ==
  /\ page_number = 0
  /\ pf_code = 0
  /\ collected = <<>>
  /\ answer = "none"

\* most adapter threads that look up a venue at the same time
MaxThreads == 2

\* the adapter threads
Threads == 1..MaxThreads

\* no thread is in get_venue_code
CachingAtRest ==
  /\ thread = [t \in Threads |-> [at |-> "idle", name |-> <<>>, vid |-> <<>>]]
  /\ lock = 0

\* no source is reconciled
DeletingAtRest ==
  /\ db_page = 0
  /\ db_set = {}
  /\ del_list = <<>>
  /\ chunk_i = 0

\* no adapter is fetching, no source is reconciled
FetchersAtRest ==
  /\ RetryingAtRest
  /\ ExpandingAtRest
  /\ PagingAtRest
  /\ CachingAtRest
  /\ DeletingAtRest

\* most items on one page of the Eplus search
MaxItems == 3

\* the items of the page (record_list)
Items == 1..MaxItems

\* EplusConnector.__init__, no page fetched yet
BreakerAtRest ==
  /\ consecutive_failures = 0
  /\ circuit_open = FALSE
  /\ worker = [i \in Items |-> [at |-> "queued", attempt |-> 0, loaded |-> 0]]
  /\ yielded = {}
  /\ eplus_events = <<>>
  /\ streak = 0
  /\ tripped = FALSE
  /\ calls = 1

(* ------------------------- orchestrator: main -------------------------- *)
Init ==
  /\ store = {}
  /\ run = 1
  /\ dry_run \in BOOLEAN
  /\ pc = "collect"
  /\ task = [c \in Connectors |-> "running"]
  /\ fetched = [c \in Connectors |-> <<>>]
  /\ result = [c \in Connectors |-> <<>>]
  /\ outcome = [c \in Connectors |-> "none"]
  /\ completed = <<>>
  /\ all_events = <<>>
  /\ successful_sources = <<>>
  /\ unique_events = <<>>
  /\ source_url_map = <<>>
  /\ log = <<>>
  /\ store0 = {}
  /\ venues = {}
  /\ venues_map = {}
  /\ arg = None
  /\ ret = None
  /\ BreakerAtRest
  /\ FetchersAtRest

\* variant: a raise in one task cancels the tasks still running
RunConnectorRaise_cancel(c) ==
  /\ pc = "collect"
  /\ task[c] = "running"
  /\ task' = [d \in Connectors |->
                IF d = c THEN "finished"
                ELSE IF task[d] = "running" THEN "collected" ELSE task[d]]
  /\ fetched' = [d \in Connectors |-> IF task[d] = "running" THEN <<>> ELSE fetched[d]]
  /\ result' = [d \in Connectors |-> IF task[d] = "running" THEN <<>> ELSE result[d]]
  /\ outcome' = [outcome EXCEPT ![c] = "raise"]
  /\ completed' = Append(completed, c)
  /\ UNCHANGED <<store, run, dry_run, pc, all_events, successful_sources,
                 unique_events, source_url_map, log, store0,
                 venues, venues_map, arg, ret, breaker, fetchers>>

\* run_connector, the call raises: `except Exception` returns (name, [])
RunConnectorRaise(c) ==
  /\ pc = "collect"
  /\ task[c] = "running"
  /\ task' = [task EXCEPT ![c] = "finished"]
  /\ fetched' = [fetched EXCEPT ![c] = <<>>]
  /\ result' = [result EXCEPT ![c] = <<>>]
  /\ outcome' = [outcome EXCEPT ![c] = "raise"]
  /\ completed' = Append(completed, c)
  /\ UNCHANGED <<store, run, dry_run, pc, all_events, successful_sources,
                 unique_events, source_url_map, log, store0,
                 venues, venues_map, arg, ret, breaker, fetchers>>

\* the Standardizer was constructed (`std` is not None)
std == TRUE

\* run_connector when get_events returns `events`: the events are
\* standardized in the adapter's thread, which inserts a row into the venues
\* table for every venue name not yet known (the store may refuse the
\* insert: the error is printed and the id is used all the same); if a
\* standardization step raises, `except Exception` returns (name, [])
RunConnector(c, events, how, insert_ok) ==
  /\ pc = "collect"
  /\ task[c] = "running"
  /\ LET s == IF std /\ events # <<>>
              THEN StandardizeAll(c, events, venues_map, run)
              ELSE [raised |-> FALSE, events |-> events, vmap |-> venues_map,
                    insert |-> {}]
     IN /\ fetched' = [fetched EXCEPT ![c] = events]
        /\ result' = [result EXCEPT ![c] = s.events]
        /\ outcome' = [outcome EXCEPT ![c] = IF s.raised THEN "std_raise" ELSE how]
        /\ venues_map' = s.vmap
        /\ venues' = IF insert_ok THEN venues \cup s.insert ELSE venues
  /\ task' = [task EXCEPT ![c] = "finished"]
  /\ completed' = Append(completed, c)
  /\ UNCHANGED <<store, run, dry_run, pc, all_events, successful_sources,
                 unique_events, source_url_map, log, store0, arg, ret, breaker, fetchers>>

\* run_connector, the call returns: the adapter's events, all of its listings
\* ("ok") or only those it collected before an outage stopped it ("cut")
RunConnectorReturn(c) ==
  \E events \in SeqsUpTo(Listings[c], MaxEvents), how \in {"ok", "cut"},
     insert_ok \in BOOLEAN :
    RunConnector(c, events, how, insert_ok)

\* variant: every returned batch counts, the empty one too
HasEvents_any(events) == TRUE

\* `if events:` in the as_completed loop
HasEvents(events) == events # <<>>

\* one round of the as_completed loop; leaving the loop joins the executor
Collect ==
  /\ pc = "collect"
  /\ completed # <<>>
  /\ LET c == Head(completed)
         events == result[c]
     IN /\ IF HasEvents(events)
           THEN /\ all_events' = all_events \o events
                /\ successful_sources' = Append(successful_sources, c)
           ELSE UNCHANGED <<all_events, successful_sources>>
        /\ task' = [task EXCEPT ![c] = "collected"]
        /\ pc' = IF \A d \in Connectors : task'[d] = "collected"
                 THEN "save" ELSE "collect"
  /\ completed' = Tail(completed)
  /\ UNCHANGED <<store, run, dry_run, fetched, result, outcome, unique_events,
                 source_url_map, log, store0,
                 venues, venues_map, arg, ret, breaker, fetchers>>

(* ------------------------ Importer.save_results ------------------------ *)
\* is_future_event, by the type of e.date: a str is split and kept when a
\* part is today or later, or when no part parses; a date is compared; a
\* list is kept only when an item is today or later; any other value is kept
is_future_event(e) ==
  LET d == e.date
  IN CASE d.kind = "str" ->
            LET parts == Split(d.v, <<>>)
            IN IF parts = <<>> THEN TRUE
               ELSE IF \E i \in DOMAIN parts :
                         Parses(parts[i]) /\ ParsedDate(parts[i]) >= Today
                    THEN TRUE
                    ELSE ~(\E i \in DOMAIN parts : Parses(parts[i]))
       [] d.kind = "date" -> d.v >= Today
       [] d.kind = "list" ->
            \E i \in DOMAIN d.v :
              \/ d.v[i].kind = "date" /\ d.v[i].v >= Today
              \/ d.v[i].kind = "str" /\ Parses(d.v[i].v)
                   /\ ParsedDate(d.v[i].v) >= Today
       [] OTHER -> TRUE

\* [e for e in all_events if is_future_event(e)]
RECURSIVE FutureEvents(_)
FutureEvents(events) ==
  IF events = <<>> THEN <<>>
  ELSE IF is_future_event(Head(events))
       THEN <<Head(events)>> \o FutureEvents(Tail(events))
       ELSE FutureEvents(Tail(events))

\* variant: a later event of a url replaces the earlier one
RECURSIVE Deduplicate_last(_, _)
Deduplicate_last(events, seen) ==
  IF events = <<>> THEN <<>>
  ELSE IF \E i \in 2..Len(events) : events[i].url = Head(events).url
       THEN Deduplicate_last(Tail(events), seen)
       ELSE <<Head(events)>> \o Deduplicate_last(Tail(events), seen)

\* the unique_events_map loop: the first event of each url, in batch order
RECURSIVE Deduplicate(_, _)
Deduplicate(events, seen) ==
  IF events = <<>> THEN <<>>
  ELSE IF Head(events).url \in seen
       THEN Deduplicate(Tail(events), seen)
       ELSE <<Head(events)>> \o Deduplicate(Tail(events), seen \cup {Head(events).url})

\* variant: the sync deletion runs before the upsert
SaveOrder_swapped == <<"sync", "upsert">>

\* the two store phases of save_results, in the order the code runs them
SaveOrder == <<"upsert", "sync">>

\* the phase that follows phase p of save_results
StepAfter(p) ==
  LET i == CHOOSE k \in 1..Len(SaveOrder) : SaveOrder[k] = p
  IN IF i < Len(SaveOrder) THEN SaveOrder[i + 1] ELSE "done"

\* save_results up to the upsert: the two early returns, filter, deduplicate
SaveBegin ==
  /\ pc = "save"
  /\ IF all_events = <<>> \/ dry_run
     THEN /\ pc' = "done"
          /\ UNCHANGED unique_events
     ELSE /\ unique_events' = Deduplicate(FutureEvents(all_events), {})
          /\ pc' = SaveOrder[1]
  /\ UNCHANGED <<store, run, dry_run, task, fetched, result, outcome, completed, all_events,
                 successful_sources, source_url_map, log, store0,
                 venues, venues_map, arg, ret, breaker, fetchers>>

(* ----------------------- Importer._upsert_events ----------------------- *)
\* date.isoformat(): the date as text
IsoFormat(d) == Str(<<CHOOSE c \in DOMAIN DigitVal : DigitVal[c] = d>>)

\* `if event_dict.get(field) is not None and not isinstance(.., list)`:
\* a single value is wrapped into a one-element list
AsList(x) ==
  IF x.kind \in {"none", "list"} THEN x ELSE List(<<x>>)

\* the new_dates loop: runs for a non-empty list; dates become text
DatesAsText(x) ==
  IF Truthy(x)
  THEN List([i \in DOMAIN x.v |->
               IF x.v[i].kind = "date" THEN IsoFormat(x.v[i].v) ELSE x.v[i]])
  ELSE x

\* the tzinfo values that are fixed offsets (datetime.timezone)
FixedOffsets == {"+10:00", "+09:00", "+01:00", "+00:00"}

\* time.isoformat(): the time as text, followed by its offset when its
\* tzinfo is a fixed offset
IsoFormatTime(t) ==
  Str(<<CHOOSE c \in DOMAIN DigitVal : DigitVal[c] = t.v>>
        \o (IF t.tz \in FixedOffsets THEN <<t.tz>> ELSE <<>>))

\* the new_times loop: runs for a non-empty list; times become text
TimesAsText(x) ==
  IF Truthy(x)
  THEN List([i \in DOMAIN x.v |->
               IF x.v[i].kind = "time" THEN IsoFormatTime(x.v[i]) ELSE x.v[i]])
  ELSE x

\* variant: the row is the whole model_dump, metadata included
Row_with_metadata(e) ==
  [url |-> e.url, event |-> AsList(e.event), date |-> DatesAsText(AsList(e.date)),
   time |-> TimesAsText(AsList(e.time)), venue |-> AsList(e.venue),
   location |-> AsList(e.location), metadata |-> e.metadata]

\* the row sent for one event: model_dump without metadata, the single
\* values wrapped into one-element lists, the dates and times as text
Row(e) ==
  [url |-> e.url, event |-> AsList(e.event), date |-> DatesAsText(AsList(e.date)),
   time |-> TimesAsText(AsList(e.time)), venue |-> AsList(e.venue),
   location |-> AsList(e.location)]

\* the urls of the stored rows
StoredUrls(st) == {r.url : r \in st}

\* variant: a plain insert, which ignores the conflict on url
UpsertRow_insert(st, row) == st \cup {row}

\* variant: on conflict the stored titles are kept and the new ones added
UpsertRow_merge(st, row) ==
  {r \in st : r.url # row.url}
    \cup {IF \E r \in st : r.url = row.url
          THEN [row EXCEPT !.event =
                  List((CHOOSE r \in st : r.url = row.url).event.v \o row.event.v)]
          ELSE row}

\* upsert of one row with on_conflict="url": a stored row with the same url
\* is replaced by the new row, otherwise the new row is inserted
UpsertRow(st, row) == {r \in st : r.url # row.url} \cup {row}

\* the store's upsert(data, on_conflict="url")
RECURSIVE UpsertRows(_, _)
UpsertRows(st, data) ==
  IF data = <<>> THEN st
  ELSE UpsertRows(UpsertRow(st, Head(data)), Tail(data))

\* the payload of the upsert request
UpsertData(events) == [i \in 1..Len(events) |-> Row(events[i])]

\* a record of one request to the store
Req(op, source, urls, ok) == [op |-> op, source |-> source, urls |-> urls, ok |-> ok]

\* the first try block of save_results: _upsert_events sends no request for
\* an empty batch, else one upsert request; a store error is printed and
\* swallowed by save_results; std.localize_pending(), called after the
\* upsert, finds no Google data and updates nothing
Upsert ==
  /\ pc = "upsert"
  /\ IF unique_events = <<>>
     THEN UNCHANGED <<store, log>>
     ELSE \/ /\ store' = UpsertRows(store, UpsertData(unique_events))
             /\ log' = Append(log, Req("upsert", "", UrlsOf(unique_events), TRUE))
          \/ /\ store' = store
             /\ log' = Append(log, Req("upsert", "", UrlsOf(unique_events), FALSE))
  /\ pc' = StepAfter("upsert")
  /\ UNCHANGED <<run, dry_run, task, fetched, result, outcome, completed, all_events,
                 successful_sources, unique_events, source_url_map, store0,
                 venues, venues_map, arg, ret, breaker, fetchers>>

(* --------------------------- sync deletion ----------------------------- *)
\* found_urls = [e.url for e in unique_events if pat in e.url]
FoundUrls(events, pat) == {u \in UrlsOf(events) : Contains(u, pat)}

\* the loop over successful_sources that fills source_url_map
RECURSIVE BuildSourceUrlMap(_, _)
BuildSourceUrlMap(sources, events) ==
  IF sources = <<>> THEN <<>>
  ELSE LET pat == PatternOf(Head(sources))
       IN (IF pat # <<>>
           THEN <<[source |-> Head(sources), found |-> FoundUrls(events, pat)]>>
           ELSE <<>>) \o BuildSourceUrlMap(Tail(sources), events)

\* the second try block of save_results up to the call of
\* _delete_missing_events, which is skipped for an empty source_url_map
Sync ==
  /\ pc = "sync"
  /\ source_url_map' = BuildSourceUrlMap(successful_sources, unique_events)
  /\ pc' = IF source_url_map' # <<>> THEN "reconcile" ELSE StepAfter("sync")
  /\ UNCHANGED <<store, run, dry_run, task, fetched, result, outcome, completed, all_events,
                 successful_sources, unique_events, log, store0,
                 venues, venues_map, arg, ret, breaker, fetchers>>

(* ------------------- Importer._delete_missing_events ------------------- *)
\* rows fetched by one select request (1000 in the code, scaled down so
\* that a read has several pages)
page_size == 2
\* urls named by one delete request (200 in the code, scaled down so that
\* a deletion has several chunks)
chunk_size == 2

\* some enumeration of a finite set (the order in which the store answers)
RECURSIVE SetToSeq(_)
SetToSeq(S) ==
  IF S = {} THEN <<>>
  ELSE LET x == CHOOSE y \in S : TRUE IN <<x>> \o SetToSeq(S \ {x})

\* the elements of a sequence
Range(s) == {s[i] : i \in 1..Len(s)}

\* the smaller of two numbers
Min(a, b) == IF a < b THEN a ELSE b

\* the `while has_more` loop: read the matching rows page by page until a
\* page is empty or short
RECURSIVE ReadPages(_, _, _)
ReadPages(rows, page, db_urls) ==
  LET slice == SubSeq(rows, page * page_size + 1,
                      Min((page + 1) * page_size, Len(rows)))
      acc == db_urls \cup Range(slice)
  IN IF slice = <<>> THEN db_urls
     ELSE IF Len(slice) < page_size THEN acc
     ELSE ReadPages(rows, page + 1, acc)

\* db_urls: the stored urls that select("url").ilike("url", "%pattern%") returns
DbUrls(st, pattern) ==
  ReadPages(SetToSeq({u \in StoredUrls(st) : ILike(u, pattern)}), 0, {})

\* variant: the urls found in this run are not taken out
ToDelete_all(st, pattern, found_set) == DbUrls(st, pattern)

\* to_delete = list(db_urls - found_set)
ToDelete(st, pattern, found_set) == DbUrls(st, pattern) \ found_set

\* the delete requests: to_delete[i:i+chunk_size] for i = 0, chunk_size, ...
RECURSIVE DeleteRequests(_, _, _)
DeleteRequests(source, to_delete, i) ==
  IF i > Len(to_delete) THEN <<>>
  ELSE <<Req("delete", source,
             Range(SubSeq(to_delete, i, Min(i + chunk_size - 1, Len(to_delete)))),
             TRUE)>>
       \o DeleteRequests(source, to_delete, i + chunk_size)

\* the store's delete().in_("url", chunk), for every chunk
DeleteRows(st, urls) == {r \in st : r.url \notin urls}

\* one round of the loop over source_urls in _delete_missing_events
Reconcile ==
  /\ pc = "reconcile"
  /\ source_url_map # <<>>
  /\ LET source == Head(source_url_map).source
         found_set == Head(source_url_map).found
         pattern == PatternOf(source)
         to_delete == ToDelete(store, pattern, found_set)
     IN /\ log' = log \o <<Req("select", source, DbUrls(store, pattern), TRUE)>>
                      \o DeleteRequests(source, SetToSeq(to_delete), 1)
        /\ store' = DeleteRows(store, to_delete)
  /\ source_url_map' = Tail(source_url_map)
  /\ pc' = IF source_url_map' = <<>> THEN StepAfter("sync") ELSE "reconcile"
  /\ UNCHANGED <<run, dry_run, task, fetched, result, outcome, completed, all_events,
                 successful_sources, unique_events, store0,
                 venues, venues_map, arg, ret, breaker, fetchers>>

(* ------------------------------ next run ------------------------------- *)
\* the batch job is started again: a new process with the same store
NextRun ==
  /\ pc = "done"
  /\ run < MaxRuns
  /\ run' = run + 1
  /\ dry_run' \in BOOLEAN
  /\ pc' = "collect"
  /\ task' = [c \in Connectors |-> "running"]
  /\ fetched' = [c \in Connectors |-> <<>>]
  /\ result' = [c \in Connectors |-> <<>>]
  /\ outcome' = [c \in Connectors |-> "none"]
  /\ completed' = <<>>
  /\ all_events' = <<>>
  /\ successful_sources' = <<>>
  /\ unique_events' = <<>>
  /\ source_url_map' = <<>>
  /\ log' = <<>>
  /\ store0' = store
  /\ venues_map' = LoadVenues(venues)
  /\ UNCHANGED <<store, venues, arg, ret, breaker, fetchers>>

Next ==
  \/ \E c \in Connectors : RunConnectorRaise(c)
  \/ \E c \in Connectors : RunConnectorReturn(c)
  \/ Collect
  \/ SaveBegin
  \/ Upsert
  \/ Sync
  \/ Reconcile
  \/ NextRun

Spec == Init /\ [][Next]_vars

(* ------------- runs over listings with venues and locations ----------- *)
\* listings that carry a venue, a location, times: a Songkick listing with
\* the country code of Japan, a location registered in London and a start
\* time left naive at construction (the geocoder gave no answer), one with a
\* location that is not registered, one whose location is a list; Eplus
\* listings at the venues "v" and "w", the second one already past
StdListings ==
  [Songkick |-> { [Ev(U_sk1, "a", Today + 1, {<<"country", "JP">>})
                     EXCEPT !.venue = Str(<<"v">>), !.location = Str(<<"l">>),
                            !.time = List(<<Time(7, "naive")>>)],
                  [Ev(U_sk1, "b", Today + 1, {}) EXCEPT !.location = Str(<<"z">>)],
                  [Ev(U_SK1, "a", Today + 1, {})
                     EXCEPT !.location = List(<<Str(<<"t">>)>>)] },
   Eplus    |-> { [Ev(U_ep1, "a", Today + 1, {}) EXCEPT !.venue = Str(<<"v">>)],
                  [Ev(U_ep1, "b", Today - 1, {}) EXCEPT !.venue = Str(<<"w">>)],
                  Ev(U_x1, "a", Today, {}) }]

\* run_connector of one run, the call returns some of these listings
RunConnectorStd(c) ==
  \E events \in SeqsUpTo(StdListings[c], MaxEvents), how \in {"ok", "cut"},
     insert_ok \in BOOLEAN :
    RunConnector(c, events, how, insert_ok)

NextStandardize ==
  \/ \E c \in Connectors : RunConnectorRaise(c)
  \/ \E c \in Connectors : RunConnectorStd(c)
  \/ Collect
  \/ SaveBegin
  \/ Upsert
  \/ Sync
  \/ Reconcile

SpecStandardize == Init /\ [][NextStandardize]_vars

(* ------------------- upsert applied twice to a batch ------------------- *)
\* most events in a collected batch
MaxBatch == 2

\* every event an adapter can return
AllListings == UNION {Listings[c] : c \in Connectors}

\* every table the runs can leave behind: rows of events, one row per url
ValidStores ==
  {st \in SUBSET {Row(e) : e \in AllListings} :
     \A r1 \in st, r2 \in st : r1.url = r2.url => r1 = r2}

InitUpsert ==
  /\ store \in ValidStores
  /\ store0 = store
  /\ unique_events \in {Deduplicate(FutureEvents(b), {}) :
                          b \in SeqsUpTo(AllListings, MaxBatch)}
  /\ pc = "upsert_once"
  /\ run = 1
  /\ dry_run = FALSE
  /\ task = [c \in Connectors |-> "collected"]
  /\ fetched = [c \in Connectors |-> <<>>]
  /\ result = [c \in Connectors |-> <<>>]
  /\ outcome = [c \in Connectors |-> "none"]
  /\ completed = <<>>
  /\ all_events = unique_events
  /\ successful_sources = <<>>
  /\ source_url_map = <<>>
  /\ log = <<>>
  /\ venues = {}
  /\ venues_map = {}
  /\ arg = None
  /\ ret = None
  /\ BreakerAtRest
  /\ FetchersAtRest

\* _upsert_events(B) on store S
UpsertOnce ==
  /\ pc = "upsert_once"
  /\ store' = UpsertRows(store, UpsertData(unique_events))
  /\ pc' = "upsert_twice"
  /\ UNCHANGED <<run, dry_run, task, fetched, result, outcome, completed, all_events,
                 successful_sources, unique_events, source_url_map, log, store0,
                 venues, venues_map, arg, ret, breaker, fetchers>>

\* _upsert_events(B) again, on the store the first call left
UpsertAgain ==
  /\ pc = "upsert_twice"
  /\ store' = UpsertRows(store, UpsertData(unique_events))
  /\ pc' = "upserted"
  /\ UNCHANGED <<run, dry_run, task, fetched, result, outcome, completed, all_events,
                 successful_sources, unique_events, source_url_map, log, store0,
                 venues, venues_map, arg, ret, breaker, fetchers>>

NextUpsert == UpsertOnce \/ UpsertAgain

SpecUpsert == InitUpsert /\ [][NextUpsert]_vars

(* ------------------- functions applied on their own -------------------- *)
\* the variables of the run
pipeline == <<store, run, dry_run, task, fetched, result, outcome, completed, all_events,
              successful_sources, unique_events, source_url_map, log, store0,
              venues, venues_map>>

\* no run is going on
AtRest ==
  /\ store = {}
  /\ store0 = {}
  /\ run = 1
  /\ dry_run = FALSE
  /\ task = [c \in Connectors |-> "collected"]
  /\ fetched = [c \in Connectors |-> <<>>]
  /\ result = [c \in Connectors |-> <<>>]
  /\ outcome = [c \in Connectors |-> "none"]
  /\ completed = <<>>
  /\ all_events = <<>>
  /\ successful_sources = <<>>
  /\ unique_events = <<>>
  /\ source_url_map = <<>>
  /\ log = <<>>
  /\ venues = {}
  /\ venues_map = {}

(* ----------------------- clean_text applied twice ---------------------- *)
\* most characters of a text
MaxText == 3

\* the characters of the texts
TextChars == {"&", "a", ";", " ", "zwsp", "fw&", "nbsp"}

\* the texts given to clean_text
Texts == SeqsUpTo(TextChars, MaxText)

InitClean ==
  /\ AtRest
  /\ pc = "clean_once"
  /\ arg \in {None} \cup {Str(t) : t \in Texts}
  /\ ret = None
  /\ BreakerAtRest
  /\ FetchersAtRest

\* clean_text(x)
CleanOnce ==
  /\ pc = "clean_once"
  /\ ret' = clean_text(arg)
  /\ pc' = "clean_twice"
  /\ UNCHANGED <<pipeline, arg, breaker, fetchers>>

\* clean_text(clean_text(x))
CleanAgain ==
  /\ pc = "clean_twice"
  /\ ret' = clean_text(ret)
  /\ pc' = "cleaned"
  /\ UNCHANGED <<pipeline, arg, breaker, fetchers>>

NextClean == CleanOnce \/ CleanAgain

SpecClean == InitClean /\ [][NextClean]_vars

(* ------------------ is_future_event applied to a date ------------------ *)
\* most characters of a date text
MaxDateText == 3
\* most items of a list of dates
MaxDates == 2

\* date texts: "1" is a date before today, "3" a date after today, "x" does
\* not parse, " " separates the bounds of a range
DateTexts == SeqsUpTo({"1", "3", "x", " "}, MaxDateText)

\* the values of Event.date: None, a date, a str, a list of dates or strs
DateValues ==
  {None}
    \cup {Date(d) : d \in {Today - 1, Today, Today + 1}}
    \cup {Str(t) : t \in DateTexts}
    \cup {List(l) : l \in SeqsUpTo({Date(Today - 1), Date(Today + 1), Str(<<"1">>),
                                      Str(<<"3">>), Str(<<"x">>)}, MaxDates)}

InitFilter ==
  /\ AtRest
  /\ pc = "filter"
  /\ arg \in DateValues
  /\ ret = None
  /\ BreakerAtRest
  /\ FetchersAtRest

\* is_future_event(e) for an event with this date
FilterOnce ==
  /\ pc = "filter"
  /\ ret' = is_future_event([Ev(U_x1, "a", Today, {}) EXCEPT !.date = arg])
  /\ pc' = "filtered"
  /\ UNCHANGED <<pipeline, arg, breaker, fetchers>>

NextFilter == FilterOnce

SpecFilter == InitFilter /\ [][NextFilter]_vars

(* -------------------- get_location_codes applied once ------------------ *)
\* longest location text
MaxLoc == 3

\* the characters of a location text: the names of Tokyo ("t", "T" "to"),
\* the name of London, a name that is not registered, separators
LocChars == {"t", "T", "to", "l", "z", "/", "&"}

\* the location texts given to get_location_codes
LocationTexts == SeqsUpTo(LocChars, MaxLoc)

InitLocation ==
  /\ AtRest
  /\ pc = "locate"
  /\ arg \in {None} \cup {Str(t) : t \in LocationTexts}
  /\ ret = None
  /\ BreakerAtRest
  /\ FetchersAtRest

\* std.get_location_codes(raw_loc)
LocateOnce ==
  /\ pc = "locate"
  /\ ret' = get_location_codes(arg)
  /\ pc' = "located"
  /\ UNCHANGED <<pipeline, arg, breaker, fetchers>>

NextLocation == LocateOnce

SpecLocation == InitLocation /\ [][NextLocation]_vars

(* --------------------- attach_timezone applied once -------------------- *)
\* the hours of the times given to attach_timezone
Hours == {0, 7, 19}

\* the calls attach_timezone(t, tz_name, reference_date): a naive or an
\* aware time, a zone name ZoneInfo knows or not, and no reference date, a
\* date, a date text or another text
AttachCalls ==
  [t : {Time(h, tz) : h \in Hours, tz \in {"naive", "+09:00", "Europe/London"}},
   tz_name : ValidZones \cup {"Mars/Olympus"},
   reference_date : {None, Date(JapanSummerTimeEnd), Date(Today - 1), Date(Today),
                     Date(Today + 1), Str(<<"1">>), Str(<<"3">>), Str(<<"x">>)}]

InitZone ==
  /\ AtRest
  /\ pc = "attach"
  /\ arg \in AttachCalls
  /\ ret = None
  /\ BreakerAtRest
  /\ FetchersAtRest

\* attach_timezone(t, tz_name, reference_date)
AttachOnce ==
  /\ pc = "attach"
  /\ ret' = attach_timezone(arg.t, arg.tz_name, arg.reference_date)
  /\ pc' = "attached"
  /\ UNCHANGED <<pipeline, arg, breaker, fetchers>>

NextZone == AttachOnce

SpecZone == InitZone /\ [][NextZone]_vars

(* ------------------------ Event(...) applied once ---------------------- *)
\* the keyword arguments an adapter gives to Event(...)
RawEvents ==
  [url : {Missing, None, Str(<<>>), Str(U_x1)},
   event : {Missing, None, Str(<<>>), Str(<<"a">>), List(<<>>),
            List(<<Str(<<" ">>)>>), List(<<Str(<<"a">>), Str(<<"a", " ">>)>>)},
   date : {Missing, Str(<<>>), List(<<>>), Date(Today + 1),
           List(<<Date(Today + 1), Date(Today + 1)>>)},
   time : {Missing, List(<<>>), Str(<<"x">>), Str(<<"7">>),
           List(<<Time(7, "naive"), Time(7, "naive")>>)},
   venue : {Missing, Str(<<"v">>)},
   location : {Missing, Str(<<"t">>), Str(<<"l">>)},
   metadata : {Missing}]

InitEvent ==
  /\ AtRest
  /\ pc = "construct"
  /\ arg \in RawEvents
  /\ ret = None
  /\ BreakerAtRest
  /\ FetchersAtRest

\* what the geocoder can answer for the names it is asked about: the zone
\* of the place, or nothing (no match, no network, rate limit)
Geocoders == [{<<"l">>, <<"v">>} -> {"", "Europe/London"}]

\* Event(**arg)
Construct ==
  /\ pc = "construct"
  /\ \E geo \in Geocoders : ret' = EventConstruct(arg, geo)
  /\ pc' = "constructed"
  /\ UNCHANGED <<pipeline, arg, breaker, fetchers>>

NextEvent == Construct

SpecEvent == InitEvent /\ [][NextEvent]_vars

(* ------------------- save_results applied to a batch ------------------- *)
\* the events of a collected batch: the listings, and a listing whose url
\* the source left empty (Event accepts any str as url)
BatchEvents == AllListings \cup {Ev(<<>>, "a", Today + 1, {})}

InitSave ==
  /\ store \in {{}, {Row(Ev(U_sk1, "b", Today + 1, {}))}}
  /\ store0 = store
  /\ run = 1
  /\ dry_run \in BOOLEAN
  /\ pc = "save"
  /\ task = [c \in Connectors |-> "collected"]
  /\ fetched = [c \in Connectors |-> <<>>]
  /\ result = [c \in Connectors |-> <<>>]
  /\ outcome = [c \in Connectors |-> "ok"]
  /\ completed = <<>>
  /\ all_events \in SeqsUpTo(BatchEvents, MaxBatch)
  /\ successful_sources \in {<<>>, <<"Songkick">>}
  /\ (all_events = <<>>) = (successful_sources = <<>>)
  /\ unique_events = <<>>
  /\ source_url_map = <<>>
  /\ log = <<>>
  /\ venues = {}
  /\ venues_map = {}
  /\ arg = None
  /\ ret = None
  /\ BreakerAtRest
  /\ FetchersAtRest

NextSave == SaveBegin \/ Upsert \/ Sync \/ Reconcile

SpecSave == InitSave /\ [][NextSave]_vars

(* ---------------- the Eplus adapter's circuit breaker ------------------ *)
\* one page of EplusConnector.get_events: every item of record_list is
\* submitted to the thread pool as a _process_item call, the calls run
\* concurrently, get_events takes their results from as_completed.  A call
\* stands "queued" (not started), at "check" (entering _check_exclusion),
\* at "get" (in the retry loop, before a request), at "gave_up" (after the
\* loop, before the counter is read), at "add" (counter read, not yet
\* written), at "test" (before the comparison with the threshold), or it is
\* over: it returned an Event ("event"), returned None ("none") or raised
\* CircuitBreakerError ("raised").

\* max_retries of _check_exclusion
max_retries == 3

\* max_consecutive_failures: the code sets 20; the threshold is taken small
\* enough for the items of one page to reach it
max_consecutive_failures == 2

\* the positions at which a _process_item call is over
Over == {"event", "none", "raised"}

\* item i's call moves to position `at`; `attempt` and the value read from
\* the counter are locals of _check_exclusion, gone when the call is over
Goto(i, at, n, v) ==
  worker' = [worker EXCEPT ![i] = [at |-> at, attempt |-> n, loaded |-> v]]

InitBreaker ==
  /\ AtRest
  /\ pc = "as_completed"
  /\ arg = None
  /\ ret = None
  /\ BreakerAtRest
  /\ FetchersAtRest

\* _process_item up to the call of _check_exclusion: `if self.circuit_open:
\* return None`; an item without a link is not checked and becomes an Event
\* or, if it cannot be parsed, None
ProcessItem(i) ==
  /\ pc \in {"as_completed", "join"}
  /\ worker[i].at = "queued"
  /\ IF circuit_open
     THEN Goto(i, "none", 0, 0)
     ELSE \E at \in {"check", "event", "none"} : Goto(i, at, 0, 0)
  /\ UNCHANGED <<pipeline, fetchers, calls, pc, arg, ret, consecutive_failures, circuit_open, yielded,
                 eplus_events, streak, tripped>>

\* _check_exclusion before the loop: `if self.circuit_open: raise`
CheckExclusion(i) ==
  /\ worker[i].at = "check"
  /\ IF circuit_open
     THEN Goto(i, "raised", 0, 0)
     ELSE Goto(i, "get", 0, 0)
  /\ UNCHANGED <<pipeline, fetchers, calls, pc, arg, ret, consecutive_failures, circuit_open, yielded,
                 eplus_events, streak, tripped>>

\* one round of the retry loop: the detail page is requested; 200 and 404
\* set the counter to zero and end the check (the item becomes an Event or
\* None); any other status or an exception sleeps and goes round again
\* while attempt < max_retries
SubFetch(i) ==
  /\ worker[i].at = "get"
  /\ \E status \in {200, 404, 500} :
       IF status \in {200, 404}
       THEN /\ consecutive_failures' = 0
            /\ streak' = 0
            /\ \E at \in {"event", "none"} : Goto(i, at, 0, 0)
       ELSE /\ Goto(i, IF worker[i].attempt + 1 < max_retries THEN "get" ELSE "gave_up",
                    worker[i].attempt + 1, 0)
            /\ UNCHANGED <<consecutive_failures, streak>>
  /\ UNCHANGED <<pipeline, fetchers, calls, pc, arg, ret, circuit_open, yielded, eplus_events, tripped>>

\* `self.consecutive_failures += 1`, the read
LoadFailures(i) ==
  /\ worker[i].at = "gave_up"
  /\ Goto(i, "add", worker[i].attempt, consecutive_failures)
  /\ UNCHANGED <<pipeline, fetchers, calls, pc, arg, ret, consecutive_failures, circuit_open, yielded,
                 eplus_events, streak, tripped>>

\* `self.consecutive_failures += 1`, the write; the print follows
StoreFailures(i) ==
  /\ worker[i].at = "add"
  /\ consecutive_failures' = worker[i].loaded + 1
  /\ streak' = streak + 1
  /\ tripped' = (tripped \/ streak' >= max_consecutive_failures)
  /\ Goto(i, "test", worker[i].attempt, 0)
  /\ UNCHANGED <<pipeline, fetchers, calls, pc, arg, ret, circuit_open, yielded, eplus_events>>

\* `if self.consecutive_failures >= self.max_consecutive_failures:` open
\* the breaker and raise; else return True, and _process_item returns None
TestFailures(i) ==
  /\ worker[i].at = "test"
  /\ IF consecutive_failures >= max_consecutive_failures
     THEN /\ circuit_open' = TRUE
          /\ Goto(i, "raised", 0, 0)
     ELSE /\ circuit_open' = circuit_open
          /\ Goto(i, "none", 0, 0)
  /\ UNCHANGED <<pipeline, fetchers, calls, pc, arg, ret, consecutive_failures, yielded, eplus_events,
                 streak, tripped>>

\* one round of `for future in as_completed(futures)`: a result is
\* appended to all_events, None is passed over, CircuitBreakerError sets
\* circuit_open and breaks
AsCompleted(i) ==
  /\ pc = "as_completed"
  /\ i \notin yielded
  /\ worker[i].at \in Over
  /\ yielded' = yielded \cup {i}
  /\ eplus_events' = IF worker[i].at = "event" THEN Append(eplus_events, i)
                     ELSE eplus_events
  /\ circuit_open' = (circuit_open \/ worker[i].at = "raised")
  /\ pc' = IF worker[i].at = "raised" \/ yielded' = Items THEN "join" ELSE pc
  /\ UNCHANGED <<pipeline, fetchers, calls, arg, ret, consecutive_failures, worker, streak, tripped>>

\* leaving the `with ThreadPoolExecutor` block waits for every call; the
\* page was the last one, or the breaker is open: get_events returns the
\* events made of all_events
GetEventsReturn ==
  /\ pc = "join"
  /\ \A i \in Items : worker[i].at \in Over
  /\ pc' = "returned"
  /\ ret' = eplus_events
  /\ UNCHANGED <<pipeline, arg, breaker, fetchers>>

\* most get_events calls made on one connector object
MaxCalls == 2

\* get_events is called again on the same object: all_events is a new
\* list and a new page is fetched, consecutive_failures and circuit_open
\* are what the call before left (they are set in __init__ only); with
\* circuit_open the page loop breaks before the first request and the call
\* returns no events
GetEventsAgain ==
  /\ pc = "returned"
  /\ calls < MaxCalls
  /\ calls' = calls + 1
  /\ eplus_events' = <<>>
  /\ yielded' = {}
  /\ worker' = [i \in Items |-> [at |-> "queued", attempt |-> 0, loaded |-> 0]]
  /\ IF circuit_open
     THEN /\ pc' = "returned"
          /\ ret' = <<>>
     ELSE /\ pc' = "as_completed"
          /\ ret' = None
  /\ UNCHANGED <<pipeline, fetchers, arg, consecutive_failures, circuit_open, streak,
                 tripped>>

NextBreaker ==
  \/ \E i \in Items : ProcessItem(i)
  \/ \E i \in Items : CheckExclusion(i)
  \/ \E i \in Items : SubFetch(i)
  \/ \E i \in Items : LoadFailures(i)
  \/ \E i \in Items : StoreFailures(i)
  \/ \E i \in Items : TestFailures(i)
  \/ \E i \in Items : AsCompleted(i)
  \/ GetEventsReturn
  \/ GetEventsAgain

SpecBreaker == InitBreaker /\ [][NextBreaker]_vars

(* ------------------------ one fetch with retries ----------------------- *)
\* the answers a request can get: a status, or none at all (0: the
\* connection was reset or timed out)
Statuses == {200, 404, 503, 0}

\* stop_after_attempt(3) of SongkickConnector._fetch
stop_after_attempt == 3

\* wait_exponential(multiplier=1, min=2, max=10)
wait_multiplier == 1
wait_min == 2
wait_max == 10

\* Retry(total=3, status_forcelist=[500, 502, 503, 504]) mounted on the
\* session of EplusConnector: the session itself sends a request again
\* when no answer or one of these statuses came
retry_total == 3
status_forcelist == {503}

\* max_backoff of _check_exclusion
max_backoff == 5

\* 2 ** n
RECURSIVE Pow2(_)
Pow2(n) == IF n = 0 THEN 1 ELSE 2 * Pow2(n - 1)

\* the larger of two numbers
Max(a, b) == IF a > b THEN a ELSE b

\* tenacity's wait after the failed attempt n:
\* max(min, min(multiplier * 2 ** (n - 1), max))
wait_exponential(n) == Max(wait_min, Min(wait_multiplier * Pow2(n - 1), wait_max))

InitRetry ==
  /\ AtRest
  /\ BreakerAtRest
  /\ arg \in {"_fetch", "_check_exclusion"}
  /\ ret = None
  /\ pc = "request"
  /\ attempt = 1
  /\ resent = 0
  /\ backoff = IF arg = "_check_exclusion" THEN 1 ELSE 0
  /\ sent = <<>>
  /\ delays = <<>>
  /\ ExpandingAtRest
  /\ PagingAtRest
  /\ CachingAtRest
  /\ DeletingAtRest

\* SongkickConnector._fetch, one attempt: client.get, raise_for_status
\* (HTTPStatusError for every 4xx and 5xx); RequestError and
\* HTTPStatusError are retried after the wait until the third attempt,
\* which raises again
Fetch ==
  /\ pc = "request"
  /\ arg = "_fetch"
  /\ \E status \in Statuses :
       /\ sent' = Append(sent, status)
       /\ IF status = 200
          THEN /\ pc' = "returned"
               /\ ret' = Ok(status)
               /\ UNCHANGED <<attempt, delays>>
          ELSE IF attempt >= stop_after_attempt
          THEN /\ pc' = "raised"
               /\ ret' = Raise
               /\ UNCHANGED <<attempt, delays>>
          ELSE /\ attempt' = attempt + 1
               /\ delays' = Append(delays, wait_exponential(attempt))
               /\ UNCHANGED <<pc, ret>>
  /\ UNCHANGED <<pipeline, breaker, expanding, paging, caching, deleting, arg, resent, backoff>>

\* EplusConnector._check_exclusion, one request of self.session.get: 200
\* returns whether the genre is excluded, 404 returns False; with no answer
\* or a status of the forcelist the session sends the request again,
\* retry_total times, then raises; the loop sleeps `backoff`, doubles it up
\* to max_backoff and goes round again while attempt < max_retries; after
\* the loop the call returns True, or raises CircuitBreakerError when the
\* failure count has reached its threshold
CheckExclusionFetch ==
  /\ pc = "request"
  /\ arg = "_check_exclusion"
  /\ \E status \in Statuses :
       /\ sent' = Append(sent, status)
       /\ IF status = 200
          THEN /\ pc' = "returned"
               /\ \E excluded \in BOOLEAN : ret' = Ok(excluded)
               /\ UNCHANGED <<attempt, resent, backoff, delays>>
          ELSE IF status = 404
          THEN /\ pc' = "returned"
               /\ ret' = Ok(FALSE)
               /\ UNCHANGED <<attempt, resent, backoff, delays>>
          ELSE IF resent < retry_total
          THEN /\ resent' = resent + 1
               /\ UNCHANGED <<pc, ret, attempt, backoff, delays>>
          ELSE /\ resent' = 0
               /\ delays' = Append(delays, backoff)
               /\ backoff' = Min(backoff * 2, max_backoff)
               /\ IF attempt < max_retries
                  THEN /\ attempt' = attempt + 1
                       /\ UNCHANGED <<pc, ret>>
                  ELSE /\ attempt' = attempt
                       /\ \/ pc' = "returned" /\ ret' = Ok(TRUE)
                          \/ pc' = "raised" /\ ret' = Raise
  /\ UNCHANGED <<pipeline, breaker, expanding, paging, caching, deleting, arg>>

NextRetry == Fetch \/ CheckExclusionFetch

SpecRetry == InitRetry /\ [][NextRetry]_vars

(* --------------------------- the page loops ---------------------------- *)
\* the page loops of SongkickConnector.get_metro_events,
\* EplusConnector.get_events and PiaConnector.get_events.  The source
\* answers a page request with a page of items ("items"; "last" when the
\* page says that no item follows it), with a page without items ("empty"),
\* with an error or a status other than 200 ("failed"), with a page during
\* whose items the circuit breaker opens ("tripped"), or with the
\* maintenance notice ("maintenance").  A page with items gives one event,
\* named by prefecture and page; events of different pages stand for
\* different shows, so the merge of events at the end changes none of them.

\* most pages with items the source has for one listing
MaxSourcePages == 3

\* the prefectures PiaConnector.get_events scans: range(1, 48) in the code
NumPrefectures == 2

\* max_pages_per_pf of PiaConnector.get_events
max_pages_per_pf == 100

\* what the source can answer for page n
PageAnswers(connector, n) ==
  (IF n <= MaxSourcePages THEN {"items"} ELSE {})
    \cup {"empty", "failed"}
    \cup (IF connector = "Eplus" /\ n <= MaxSourcePages THEN {"last", "tripped"} ELSE {})
    \cup (IF connector = "Pia" THEN {"maintenance"} ELSE {})

InitPages ==
  /\ AtRest
  /\ BreakerAtRest
  /\ RetryingAtRest
  /\ ExpandingAtRest
  /\ CachingAtRest
  /\ DeletingAtRest
  /\ arg \in {"Songkick", "Eplus", "Pia"}
  /\ ret = None
  /\ pc = "page"
  /\ page_number = 0
  /\ pf_code = IF arg = "Pia" THEN 1 ELSE 0
  /\ collected = <<>>
  /\ answer = "none"

\* variant: a page without events is an error, the call raises
SongkickPage_raise ==
  /\ pc = "page"
  /\ arg = "Songkick"
  /\ page_number' = page_number + 1
  /\ \E a \in PageAnswers(arg, page_number') :
       /\ answer' = a
       /\ IF a = "items"
          THEN /\ collected' = Append(collected, <<pf_code, page_number'>>)
               /\ UNCHANGED <<pc, ret>>
          ELSE /\ collected' = collected
               /\ pc' = "returned"
               /\ ret' = IF a = "empty" THEN Raise ELSE Ok(collected)
  /\ UNCHANGED <<pipeline, breaker, retrying, expanding, caching, deleting, arg, pf_code>>

\* one round of `while True` in get_metro_events: the page is fetched and
\* parsed; no events on it, or an exception, breaks the loop and all_events
\* is returned; else the events of the page are added
SongkickPage ==
  /\ pc = "page"
  /\ arg = "Songkick"
  /\ page_number' = page_number + 1
  /\ \E a \in PageAnswers(arg, page_number') :
       /\ answer' = a
       /\ IF a = "items"
          THEN /\ collected' = Append(collected, <<pf_code, page_number'>>)
               /\ UNCHANGED <<pc, ret>>
          ELSE /\ collected' = collected
               /\ pc' = "returned"
               /\ ret' = Ok(collected)
  /\ UNCHANGED <<pipeline, breaker, retrying, expanding, caching, deleting, arg, pf_code>>

\* one round of `while True` in EplusConnector.get_events: a status other
\* than 200, a page that does not parse, an empty record_list or an
\* exception breaks the loop; the items are processed; the loop ends when
\* the breaker opened or when current_start_index > total_count; the
\* events made of all_events are returned
EplusPage ==
  /\ pc = "page"
  /\ arg = "Eplus"
  /\ page_number' = page_number + 1
  /\ \E a \in PageAnswers(arg, page_number') :
       /\ answer' = a
       /\ circuit_open' = (a = "tripped")
       /\ collected' = IF a \in {"items", "last"}
                       THEN Append(collected, <<pf_code, page_number'>>)
                       ELSE collected
       /\ IF a = "items"
          THEN UNCHANGED <<pc, ret>>
          ELSE /\ pc' = "returned"
               /\ ret' = Ok(collected')
  /\ UNCHANGED <<pipeline, retrying, expanding, caching, deleting, arg, pf_code,
                 consecutive_failures, worker, yielded, eplus_events, streak, tripped,
                 calls>>

\* one round of `while True` in PiaConnector.get_events: past
\* max_pages_per_pf, on a status other than 200, on a page without event
\* links and on an exception the loop goes on with the next prefecture, and
\* after the last one the merged raw_events are returned; the maintenance
\* notice returns them at once
PiaPage ==
  /\ pc = "page"
  /\ arg = "Pia"
  /\ \E a \in PageAnswers(arg, page_number + 1) :
       /\ answer' = IF page_number + 1 > max_pages_per_pf THEN "none" ELSE a
       /\ IF page_number + 1 <= max_pages_per_pf /\ a = "items"
          THEN /\ collected' = Append(collected, <<pf_code, page_number + 1>>)
               /\ page_number' = page_number + 1
               /\ UNCHANGED <<pc, ret, pf_code>>
          ELSE IF page_number + 1 <= max_pages_per_pf /\ a = "maintenance"
          THEN /\ page_number' = page_number + 1
               /\ pc' = "returned"
               /\ ret' = Ok(collected)
               /\ UNCHANGED <<collected, pf_code>>
          ELSE IF pf_code < NumPrefectures
          THEN /\ pf_code' = pf_code + 1
               /\ page_number' = 0
               /\ UNCHANGED <<pc, ret, collected>>
          ELSE /\ page_number' = page_number + 1
               /\ pc' = "returned"
               /\ ret' = Ok(collected)
               /\ UNCHANGED <<collected, pf_code>>
  /\ UNCHANGED <<pipeline, breaker, retrying, expanding, caching, deleting, arg>>

NextPages == SongkickPage \/ EplusPage \/ PiaPage

\* a page loop that can go round does go round
SpecPages == InitPages /\ [][NextPages]_vars /\ WF_vars(NextPages)

(* ---------------- PiaConnector._deep_fetch_and_expand ------------------ *)
\* most nested calls of _deep_fetch_and_expand the interpreter allows
\* before it raises RecursionError
RecursionLimit == 3

\* the links of the pages: child_links of a page are the hrefs holding
\* 'ticketInformation.do', without the page itself, each once
LinkGraphs == {g \in [Pages -> SUBSET Pages] : \A p \in Pages : p \notin g[p]}

\* the call gives `events` back to its caller: the caller extends its
\* results, or, when the call was the outermost one, the expansion is over
GiveBack(frames, events) ==
  IF frames = <<>>
  THEN /\ stack' = <<>>
       /\ pc' = "returned"
       /\ ret' = Ok(events)
  ELSE /\ stack' = [frames EXCEPT ![Len(frames)].results = @ \o events]
       /\ UNCHANGED <<pc, ret>>

\* one call _deep_fetch_and_expand(url): the page is fetched; a status
\* other than 200 or an exception gives []; a page without child links is a
\* leaf and gives its events; a page with child links becomes a frame that
\* delegates to its children
DeepFetch(frames, url) ==
  /\ fetches' = [fetches EXCEPT ![url] = @ + 1]
  /\ \E status \in {200, 503} :
       IF status # 200 THEN GiveBack(frames, <<>>)
       ELSE IF arg[url] = {} THEN GiveBack(frames, <<url>>)
       ELSE /\ stack' = Append(frames, [url |-> url, todo |-> arg[url],
                                        results |-> <<>>])
            /\ UNCHANGED <<pc, ret>>

InitExpand ==
  /\ AtRest
  /\ BreakerAtRest
  /\ RetryingAtRest
  /\ ExpandingAtRest
  /\ PagingAtRest
  /\ CachingAtRest
  /\ DeletingAtRest
  /\ arg \in LinkGraphs
  /\ ret = None
  /\ pc = "expand"

\* _process_item_simple calls _deep_fetch_and_expand(link, base_info)
DeepFetchStart ==
  /\ pc = "expand"
  /\ stack = <<>>
  /\ DeepFetch(<<>>, 1)
  /\ UNCHANGED <<pipeline, breaker, retrying, paging, caching, deleting, arg>>

\* `for c_url in child_links`: the next child, in the order of
\* list(set(child_links)), is expanded by the same function; when the
\* nesting is at the interpreter's limit the call raises RecursionError,
\* which the frame's `except Exception` turns into []
DeepFetchChild ==
  /\ pc = "expand"
  /\ stack # <<>>
  /\ \E c \in stack[Len(stack)].todo :
       IF Len(stack) < RecursionLimit
       THEN DeepFetch([stack EXCEPT ![Len(stack)].todo = @ \ {c}], c)
       ELSE /\ GiveBack(SubSeq(stack, 1, Len(stack) - 1), <<>>)
            /\ UNCHANGED fetches
  /\ UNCHANGED <<pipeline, breaker, retrying, paging, caching, deleting, arg>>

\* `return results` of a container page whose children are all expanded
DeepFetchReturn ==
  /\ pc = "expand"
  /\ stack # <<>>
  /\ stack[Len(stack)].todo = {}
  /\ GiveBack(SubSeq(stack, 1, Len(stack) - 1), stack[Len(stack)].results)
  /\ UNCHANGED <<pipeline, breaker, retrying, paging, caching, deleting, arg, fetches>>

NextExpand == DeepFetchStart \/ DeepFetchChild \/ DeepFetchReturn

\* an expansion that can go on does go on
SpecExpand == InitExpand /\ [][NextExpand]_vars /\ WF_vars(NextExpand)

(* ------------- Standardizer.get_venue_code in several threads ---------- *)
\* the raw venues the threads look up: two of them clean to the same name
RawVenues == {<<"a">>, <<" ", "a">>, <<"b">>}

\* the variables the threads of get_venue_code leave alone
beside_venues == <<store, run, dry_run, pc, task, fetched, result, outcome, completed,
                   all_events, successful_sources, unique_events, source_url_map,
                   log, store0, arg, ret, breaker, retrying, expanding, paging,
                   deleting>>

\* thread t is at `at` of a call for the cleaned name `name`, holding `vid`
At(t, at, name, vid) ==
  thread' = [thread EXCEPT ![t] = [at |-> at, name |-> name, vid |-> vid]]

InitCache ==
  /\ AtRest
  /\ BreakerAtRest
  /\ RetryingAtRest
  /\ ExpandingAtRest
  /\ PagingAtRest
  /\ CachingAtRest
  /\ DeletingAtRest
  /\ arg = None
  /\ ret = None
  /\ pc = "threads"

\* get_venue_code up to the lock: normalized = clean_text(raw_venue),
\* vid = self.venues_map.get(normalized); a vid is returned, without one
\* the thread goes on to _create_placeholder and its `with self.lock`
GetVenueCode(t) ==
  /\ thread[t].at \in {"idle", "returned"}
  /\ \E raw_venue \in RawVenues :
       LET normalized == CleanKey(raw_venue)
           vid == VenueId(venues_map, normalized)
       IN IF vid # <<>>
          THEN At(t, "returned", normalized, vid)
          ELSE At(t, "acquire", normalized, <<>>)
  /\ UNCHANGED <<beside_venues, venues, venues_map, lock>>

\* `with self.lock`: the thread waits until the lock is free and takes it
AcquireLock(t) ==
  /\ thread[t].at = "acquire"
  /\ lock = 0
  /\ lock' = t
  /\ At(t, "locked", thread[t].name, <<>>)
  /\ UNCHANGED <<beside_venues, venues, venues_map>>

\* variant: no second look at venues_map inside the lock
CreatePlaceholder_unchecked(t) ==
  /\ thread[t].at = "locked"
  /\ LET name == thread[t].name
         new_id == NewId(name, t)
     IN /\ venues_map' = {m \in venues_map : m.name # name}
                           \cup {[name |-> name, id |-> new_id]}
        /\ At(t, "insert", name, new_id)
        /\ UNCHANGED lock
  /\ UNCHANGED <<beside_venues, venues>>

\* _create_placeholder inside the lock: a name that is in venues_map by now
\* is returned (the lock is released); else new_id = str(uuid.uuid4()) and
\* self.venues_map[name] = new_id
CreatePlaceholder(t) ==
  /\ thread[t].at = "locked"
  /\ LET name == thread[t].name
         new_id == NewId(name, t)
     IN IF VenueId(venues_map, name) # <<>>
        THEN /\ At(t, "returned", name, VenueId(venues_map, name))
             /\ lock' = 0
             /\ UNCHANGED venues_map
        ELSE /\ venues_map' = {m \in venues_map : m.name # name}
                                \cup {[name |-> name, id |-> new_id]}
             /\ At(t, "insert", name, new_id)
             /\ UNCHANGED lock
  /\ UNCHANGED <<beside_venues, venues>>

\* the insert into the venues table, still inside the lock: the row is
\* stored, or the request fails and the error is printed; new_id is
\* returned either way and the lock is released
InsertVenue(t) ==
  /\ thread[t].at = "insert"
  /\ \/ venues' = venues \cup {[id |-> thread[t].vid, variation |-> <<thread[t].name>>]}
     \/ venues' = venues
  /\ lock' = 0
  /\ At(t, "returned", thread[t].name, thread[t].vid)
  /\ UNCHANGED <<beside_venues, venues_map>>

NextCache ==
  \E t \in Threads :
    \/ GetVenueCode(t)
    \/ AcquireLock(t)
    \/ CreatePlaceholder(t)
    \/ InsertVenue(t)

SpecCache == InitCache /\ [][NextCache]_vars

(* --------- _delete_missing_events for one source, step by step --------- *)
\* most rows of the source in the events table
MaxRows == 4

\* the urls of the events table: urls of the source, and one of another
\* source
TableUrls ==
  {<<"s", "k", c>> : c \in {d \in DOMAIN DigitVal : DigitVal[d] \in 1..MaxRows}}
    \cup {U_ep1}

\* a stored row with url u
RowOf(u) == Row(Ev(u, "a", Today + 1, {}))

\* the rows select("url").ilike("url", "%pattern%") matches, in the order
\* in which the store hands them out
Matching(st, pattern) == SetToSeq({u \in StoredUrls(st) : ILike(u, pattern)})

\* .range(page*page_size, (page+1)*page_size - 1) of the matching rows
PageOf(rows, page) ==
  SubSeq(rows, page * page_size + 1, Min((page + 1) * page_size, Len(rows)))

\* variant: only a page longer than page_size keeps the read going
HasMore_long(rows) == Len(rows) > page_size

\* `if len(rows) < page_size: has_more = False`
HasMore(rows) == ~(Len(rows) < page_size)

\* variant: the slice takes one url more
Chunk_wide(urls, i) == SubSeq(urls, i + 1, Min(i + chunk_size + 1, Len(urls)))

\* chunk = to_delete[i:i+chunk_size]
Chunk(urls, i) == SubSeq(urls, i + 1, Min(i + chunk_size, Len(urls)))

\* list(S): the elements of a set in some order
Lists(S) ==
  {s \in [1..Cardinality(S) -> S] : \A i \in DOMAIN s, j \in DOMAIN s : s[i] = s[j] => i = j}

InitDelete ==
  /\ BreakerAtRest
  /\ RetryingAtRest
  /\ ExpandingAtRest
  /\ PagingAtRest
  /\ CachingAtRest
  /\ DeletingAtRest
  /\ store \in SUBSET {RowOf(u) : u \in TableUrls}
  /\ store0 = store
  /\ \E found \in SUBSET {u \in StoredUrls(store) : Contains(u, patterns["Songkick"])} :
       source_url_map = <<[source |-> "Songkick", found |-> found]>>
  /\ pc = "select"
  /\ run = 1
  /\ dry_run = FALSE
  /\ task = [c \in Connectors |-> "collected"]
  /\ fetched = [c \in Connectors |-> <<>>]
  /\ result = [c \in Connectors |-> <<>>]
  /\ outcome = [c \in Connectors |-> "none"]
  /\ completed = <<>>
  /\ all_events = <<>>
  /\ successful_sources = <<"Songkick">>
  /\ unique_events = <<>>
  /\ log = <<>>
  /\ venues = {}
  /\ venues_map = {}
  /\ arg = None
  /\ ret = None

\* one round of `while has_more`: the select of the page fails and the source
\* is given up (the outer except), or it gives the rows of the page; no row
\* ends the loop, the urls are added to db_urls, a short page ends the loop;
\* after the loop to_delete = list(db_urls - found_set), and without a url
\* to delete the source is in sync
SelectPage ==
  /\ pc = "select"
  /\ LET source == Head(source_url_map).source
         found_set == Head(source_url_map).found
         rows == PageOf(Matching(store, PatternOf(source)), db_page)
         urls == db_set \cup Range(rows)
     IN \/ /\ log' = Append(log, Req("select", source, {}, FALSE))
           /\ pc' = "returned"
           /\ UNCHANGED <<db_page, db_set, del_list>>
        \/ /\ log' = Append(log, Req("select", source, Range(rows), TRUE))
           /\ db_set' = urls
           /\ db_page' = IF rows = <<>> THEN db_page ELSE db_page + 1
           /\ IF rows # <<>> /\ HasMore(rows)
              THEN UNCHANGED <<pc, del_list>>
              ELSE /\ del_list' \in Lists(urls \ found_set)
                   /\ pc' = IF del_list' = <<>> THEN "returned" ELSE "delete"
  /\ UNCHANGED <<store, run, dry_run, task, fetched, result, outcome, completed,
                 all_events, successful_sources, unique_events, source_url_map,
                 store0, venues, venues_map, arg, ret, breaker, retrying,
                 expanding, paging, caching, chunk_i>>

\* one round of `for i in range(0, len(to_delete), chunk_size)`: the delete
\* request of the chunk is carried out, or it fails and the error is
\* printed; the loop goes on with the next chunk either way
DeleteChunk ==
  /\ pc = "delete"
  /\ LET source == Head(source_url_map).source
         chunk == Range(Chunk(del_list, chunk_i))
     IN \/ /\ store' = DeleteRows(store, chunk)
           /\ log' = Append(log, Req("delete", source, chunk, TRUE))
        \/ /\ store' = store
           /\ log' = Append(log, Req("delete", source, chunk, FALSE))
  /\ chunk_i' = chunk_i + chunk_size
  /\ pc' = IF chunk_i' < Len(del_list) THEN "delete" ELSE "returned"
  /\ UNCHANGED <<run, dry_run, task, fetched, result, outcome, completed,
                 all_events, successful_sources, unique_events, source_url_map,
                 store0, venues, venues_map, arg, ret, breaker, retrying,
                 expanding, paging, caching, db_page, db_set, del_list>>

NextDelete == SelectPage \/ DeleteChunk

\* a reconciliation that can go on does go on
SpecDelete == InitDelete /\ [][NextDelete]_vars /\ WF_vars(NextDelete)

(* ============================== claims ================================= *)
\* a stored url is a row of `source`: it matches the source's identity
\* pattern the way the store matches it (case-insensitive substring)
Belongs(url, source) == Contains(Lower(url), Lower(patterns[source]))

\* the urls named by the delete requests of this run
DeletedUrls == UNION {log[i].urls : i \in {j \in DOMAIN log : log[j].op = "delete"}}

\* the urls named by the delete requests of this run made for `source`
DeletedFor(source) ==
  UNION {log[i].urls :
           i \in {j \in DOMAIN log : log[j].op = "delete" /\ log[j].source = source}}

\* the sources recorded as successful
Successful == {successful_sources[i] : i \in DOMAIN successful_sources}

\* no upsert request of this run failed
UpsertsOk == \A i \in DOMAIN log : log[i].op = "upsert" => log[i].ok

\* the run has just sent its upsert and the store accepted it
JustUpserted ==
  /\ pc = "sync"
  /\ log # <<>>
  /\ log[Len(log)].op = "upsert"
  /\ log[Len(log)].ok

\* number of stored rows with this url
RowsWith(st, url) == Cardinality({r \in st : r.url = url})

\* C1: if a source's adapter call raises, no stored row belonging to that
\* source is deleted in that run, whatever the other sources return.
C1_FailedSourceKeepsRows ==
  \A c \in Connectors :
    outcome[c] = "raise" => \A u \in DeletedUrls : ~Belongs(u, c)

Unreached(c) == {e.url : e \in Listings[c]} \ UrlsOf(result[c])

\* C3: when an outage cut an adapter's run short and it returned only what
\* it had collected, the reconciliation of that source in that run deletes
\* no stored row of the source whose listing was not reached.
C3_OutageDeletesNothing ==
  \A c \in Connectors :
    outcome[c] = "cut" =>
      \A u \in Unreached(c) : Belongs(u, c) => u \notin DeletedFor(c)

\* C4: after a run in which source S is recorded successful and returned
\* the future-dated urls U, the store accepted the upsert, the rows of U
\* exist, one each, and the rows of S from before the run whose url is not
\* in U are gone.
C4_SourceRowsAreFound ==
  (pc = "done" /\ ~dry_run /\ UpsertsOk) =>
    \A c \in Successful :
      LET U == UrlsOf(FutureEvents(result[c]))
      IN /\ \A u \in U : RowsWith(store, u) = 1
         /\ \A u \in StoredUrls(store0) \ U :
              Belongs(u, c) => u \notin StoredUrls(store)

C6_OtherSourcesUntouched ==
  [][(pc = "reconcile" /\ source_url_map # <<>>) =>
       \A t \in DOMAIN patterns \ {Head(source_url_map).source} :
         {r \in store' : Belongs(r.url, t)} = {r \in store : Belongs(r.url, t)}]_vars

C8_UpsertIdempotent == [][pc = "upsert_twice" => store' = store]_vars

\* C8 witness: the batch was upserted twice into a store that held other
\* rows; the upsert replaced the stored row of one url of the batch by a
\* different row and inserted a row for another url.
C8_Witness ==
  /\ pc = "upserted"
  /\ Len(unique_events) = 2
  /\ \E r \in store0 : r.url = unique_events[1].url /\ r \notin store
  /\ unique_events[2].url \notin StoredUrls(store0)
  /\ \E r \in store0 : r.url \notin UrlsOf(unique_events) /\ r \in store

\* C9: within a run no delete request is sent before the upsert request of
\* that run, and when the batch is not empty the upsert request has been
\* answered before the first delete request is sent.
C9_DeleteAfterUpsert ==
  \A j \in DOMAIN log :
    log[j].op = "delete" =>
      /\ \A i \in DOMAIN log : log[i].op = "upsert" => i < j
      /\ unique_events # <<>> => \E i \in 1..(j - 1) : log[i].op = "upsert"

\* C9 witness: a run sent its upsert and afterwards a delete of stale rows.
C9_Witness ==
  \E i \in DOMAIN log, j \in DOMAIN log :
    /\ i < j
    /\ log[i].op = "upsert"
    /\ log[j].op = "delete"
    /\ log[j].urls # {}

\* C10: if the upsert of the run's batch fails, no delete request is sent
\* in that run and the stored rows stay as they were.
C10_FailedUpsertAbortsSync ==
  (\E i \in DOMAIN log : log[i].op = "upsert" /\ ~log[i].ok) =>
    /\ \A j \in DOMAIN log : log[j].op # "delete"
    /\ store = store0

\* C17: text cleaning is idempotent, clean(clean(x)) = clean(x) for every
\* text x, and a text that is empty after cleaning yields None, never "".
C17_CleanIdempotent ==
  [][/\ pc = "clean_once" => ret' # Str(<<>>)
     /\ pc = "clean_twice" => ret' = ret]_vars

\* the dates that the date field of an event parses to
ParseableDates(d) ==
  CASE d.kind = "date" -> {d.v}
    [] d.kind = "str" ->
         LET parts == Split(d.v, <<>>)
         IN {ParsedDate(parts[i]) : i \in {j \in DOMAIN parts : Parses(parts[j])}}
    [] d.kind = "list" ->
         {d.v[i].v : i \in {j \in DOMAIN d.v : d.v[j].kind = "date"}}
           \cup {ParsedDate(d.v[i].v) :
                   i \in {j \in DOMAIN d.v : d.v[j].kind = "str" /\ Parses(d.v[j].v)}}
    [] OTHER -> {}

\* C13: the future-date filter keeps an event if any parseable date of its
\* date field is today or later, drops it if it has a parseable date and all
\* of them are before today, and keeps it when the field parses to no date
\* at all, a list of unparseable strings and an empty list included.
C13_FilterFailsOpen ==
  pc = "filtered" =>
    LET dates == ParseableDates(arg)
    IN /\ (\E d \in dates : d >= Today) => ret
       /\ (dates # {} /\ \A d \in dates : d < Today) => ~ret
       /\ dates = {} => ret

\* the fields of an Event other than url
OtherFields == {"event", "date", "time", "venue", "location", "metadata"}

\* C15: constructing an Event fails if and only if the url is missing; when
\* any other field is missing or empty the construction succeeds and that
\* field is null.
C15_OnlyUrlRequired ==
  pc = "constructed" =>
    /\ ~ret.ok <=> Given(arg, "url").kind = "none"
    /\ ret.ok =>
         \A f \in OtherFields : ~Truthy(Given(arg, f)) => ret.event[f] = None

\* a list value is not empty and holds no item twice
NoDuplicateNotEmpty(x) ==
  x.kind = "list" =>
    /\ x.v # <<>>
    /\ \A i \in DOMAIN x.v, j \in DOMAIN x.v : x.v[i] = x.v[j] => i = j

\* C16: after Event construction, and in the row sent to the store, every
\* list-valued field holds no duplicate value and is never an empty list.
C16_ListsNeverEmpty ==
  (pc = "constructed" /\ ret.ok) =>
    \A f \in OtherFields \ {"metadata"} :
      /\ NoDuplicateNotEmpty(ret.event[f])
      /\ NoDuplicateNotEmpty(Row(ret.event)[f])

\* C14: every Event of the batch handed to the store has a non-empty url,
\* and no two Events of that batch have the same url.
C14_BatchUrlsNonEmptyUnique ==
  pc = "upsert" =>
    /\ \A i \in DOMAIN unique_events : unique_events[i].url # <<>>
    /\ \A i \in DOMAIN unique_events, j \in DOMAIN unique_events :
         unique_events[i].url = unique_events[j].url => i = j

Within(part, whole) ==
  \E i \in 0..(Len(whole) - Len(part)) :
    SubSeq(whole, i + 1, i + Len(part)) = part

\* C12: adapters are isolated.  The step in which one adapter raises leaves
\* every other task as it was; once an adapter has raised, every other
\* adapter that returned and was collected has its events in the batch, and
\* a run that is not a dry run ends with an upsert request that names the
\* future events of that adapter.
C12_AdaptersIsolated ==
  [][\A c \in Connectors :
       /\ (outcome[c] = "none" /\ outcome'[c] = "raise")
            => \A d \in Connectors \ {c} :
                 /\ task'[d] = task[d]
                 /\ result'[d] = result[d]
                 /\ outcome'[d] = outcome[d]
       /\ outcome'[c] = "raise"
            => \A d \in Connectors \ {c} :
                 /\ task'[d] # "running" => outcome'[d] # "none"
                 /\ task'[d] = "collected" => Within(result'[d], all_events')
                 /\ (pc' = "done" /\ ~dry_run' /\ FutureEvents(result'[d]) # <<>>)
                      => \E k \in DOMAIN log' :
                           /\ log'[k].op = "upsert"
                           /\ UrlsOf(FutureEvents(result'[d])) \subseteq log'[k].urls]_vars

\* C12 witness: Songkick raised, the listing Eplus returned was upserted
C12_Witness ==
  /\ outcome["Songkick"] = "raise"
  /\ outcome["Eplus"] = "ok"
  /\ pc = "done"
  /\ ~dry_run
  /\ \E r \in store : r.url = U_ep1 /\ r.url \notin StoredUrls(store0)
  /\ \E k \in DOMAIN log : log[k].op = "upsert" /\ log[k].ok /\ U_ep1 \in log[k].urls

\* C18: standardization never blocks ingestion.  Whatever an adapter's
\* get_events returned is what run_connector returns, event by event, and a
\* venue, location or time that had a value before the standardization has
\* one after it (a step that determines nothing leaves the field as it was).
C18_StandardizationNeverBlocks ==
  \A c \in Connectors :
    outcome[c] \in {"ok", "cut", "std_raise"} =>
      /\ Len(result[c]) = Len(fetched[c])
      /\ \A i \in DOMAIN result[c] :
           /\ result[c][i].url = fetched[c][i].url
           /\ Truthy(fetched[c][i].location) => Truthy(result[c][i].location)
           /\ Truthy(fetched[c][i].venue) => Truthy(result[c][i].venue)
           /\ Truthy(fetched[c][i].time) => Truthy(result[c][i].time)

\* the steps main and save_results can take from one position to the next
PhaseSteps ==
  {<<"collect", "save">>, <<"save", "done">>, <<"save", "upsert">>,
   <<"upsert", "sync">>, <<"sync", "reconcile">>, <<"sync", "done">>,
   <<"reconcile", "done">>, <<"done", "collect">>}

\* the step standardizes the events of some adapter
StandardizingStep ==
  \E c \in Connectors :
    /\ outcome[c] = "none"
    /\ outcome'[c] \in {"ok", "cut", "std_raise"}
    /\ fetched'[c] # <<>>

RECURSIVE CollectedIn(_)
CollectedIn(order) ==
  IF order = <<>> THEN [events |-> <<>>, sources |-> <<>>]
  ELSE LET rest == CollectedIn(Tail(order))
           c == Head(order)
       IN IF HasEvents(result[c])
          THEN [events |-> result[c] \o rest.events, sources |-> <<c>> \o rest.sources]
          ELSE rest

\* the store after the sync deletion of every entry of a source_url_map
RECURSIVE ReconcileAll(_, _)
ReconcileAll(st, map) ==
  IF map = <<>> THEN st
  ELSE ReconcileAll(
         DeleteRows(st, ToDelete(st, PatternOf(Head(map).source), Head(map).found)),
         Tail(map))

\* the store a run that starts from `st` leaves when its tasks complete in
\* `order` and the store accepts every request
FinalStore(st, order) ==
  LET got == CollectedIn(order)
      unique == Deduplicate(FutureEvents(got.events), {})
  IN IF got.events = <<>> THEN st
     ELSE ReconcileAll(UpsertRows(st, UpsertData(unique)),
                       BuildSourceUrlMap(got.sources, unique))

\* the orders in which the tasks can complete
Orders ==
  {o \in [1..Cardinality(Connectors) -> Connectors] :
     \A c \in Connectors : \E i \in DOMAIN o : o[i] = c}

\* the store accepted every upsert request of the run
AllUpsertsOk == \A k \in DOMAIN log : log[k].op = "upsert" => log[k].ok

\* C20: the result of a run is order-independent.  When a run that is not a
\* dry run is done, the store is what the same adapter outputs give for every
\* order in which the tasks could have completed.
C20_OrderIndependent ==
  (pc = "done" /\ ~dry_run /\ AllUpsertsOk)
    => \A o \in Orders : FinalStore(store0, o) = store

\* C21: every time that has been timezone-resolved (a naive time to which
\* a zone that exists was attached) carries a fixed numeric UTC offset and
\* never a named zone, whatever the zone and the date.
C21_ResolvedTimesCarryFixedOffset ==
  (pc = "attached" /\ arg.t.tz = "naive" /\ arg.tz_name \in ValidZones)
    => ret.tz \in FixedOffsets

FirstResolvedDate(e) ==
  IF Truthy(TargetDate(e)) /\ TargetDate(e).kind = "date"
  THEN TargetDate(e).v ELSE Today

\* the i-th time given to Event(...), as pydantic parses it
TimeGiven(raw, i) == ParsedTime(validate_time(Given(raw, "time")).v[i])

\* C22: the offset attached to a naive time is the zone's offset at the
\* event's first resolved date, and the offset at today's date only when the
\* event has no resolved date; a time that carries an offset already passes
\* through unchanged.
C22_OffsetAtEventDate ==
  (pc = "constructed" /\ ret.ok /\ Truthy(ret.event.time)) =>
    \A i \in DOMAIN ret.event.time.v :
      /\ TimeGiven(arg, i).tz # "naive" => ret.event.time.v[i] = TimeGiven(arg, i)
      /\ (TimeGiven(arg, i).tz = "naive" /\ ret.event.time.v[i].tz # "naive")
           => \E zone \in ValidZones :
                ret.event.time.v[i] =
                  Time(TimeGiven(arg, i).v, ZoneOffset(zone, FirstResolvedDate(ret.event)))

\* the forms a time of hour h takes when it is resolved in a zone
ResolvedIn(h, zone) ==
  {Time(h, zone)} \cup {Time(h, ZoneOffset(zone, d)) : d \in 0..(Today + 1)}

Canonical(part) ==
  IF locations_ja(part) # <<>> THEN locations_ja(part)
  ELSE IF locations_en(part) # <<>> THEN locations_en(part)
  ELSE part

\* the parts of a raw location text between slash, comma, middle dot and
\* ampersand, the empty ones left out
PartsOf(text) ==
  NonEmpty(StripAll(SplitOn(text, {"/", ",", "jcomma", "middot", "&"}, <<>>)))

\* C23: the canonical location of a raw text is the list of its parts in
\* order, each part that is exactly a known region name replaced by the
\* canonical one, every other part unchanged, duplicates removed; a text
\* with no matching part comes back uncanonicalized, it is not dropped.
C23_UnmatchedPartsPassThrough ==
  (pc = "located" /\ arg.kind = "str" /\ PartsOf(arg.v) # <<>>) =>
    /\ ~ret.raised
    /\ ret.v.kind = "list"
    /\ [i \in DOMAIN ret.v.v |-> ret.v.v[i].v]
         = DedupSeq([i \in DOMAIN PartsOf(arg.v) |-> Canonical(PartsOf(arg.v)[i])], {})

MaxChunk == 1

\* C26: the upsert sends the batch in chunks of bounded size: no upsert
\* request carries more rows than the chunk bound, however large the batch.
C26_UpsertRequestsBounded ==
  \A i \in DOMAIN log :
    log[i].op = "upsert" => Cardinality(log[i].urls) <= MaxChunk

\* C28: the metadata of an event is never written to the store: no row of
\* the payload of an upsert request has a metadata field, and no stored row
\* has one, whatever metadata the events of the batch carry.
C28_MetadataNeverStored ==
  /\ \A r \in store : "metadata" \notin DOMAIN r
  /\ pc = "upsert" =>
       \A i \in DOMAIN UpsertData(unique_events) :
         "metadata" \notin DOMAIN UpsertData(unique_events)[i]

\* an event that carries metadata was upserted and its row is stored
C28_Witness ==
  /\ pc \in {"sync", "reconcile", "done"}
  /\ log # <<>> /\ log[1].op = "upsert" /\ log[1].ok
  /\ \E i \in DOMAIN unique_events :
       /\ unique_events[i].metadata.kind = "dict"
       /\ \E r \in store : r.url = unique_events[i].url /\ r.event = AsList(unique_events[i].event)

\* item i's call requests the detail page in this step
Requests(i) == worker[i].at = "get" /\ worker'[i] # worker[i]

\* C29: once the circuit breaker is open no sub-fetch is attempted any more,
\* by no worker and under no interleaving, the workers that are inside the
\* retry loop included; and get_events returns the events it had collected.
C29_OpenBreakerStopsSubFetches ==
  [][/\ circuit_open => \A i \in Items : ~Requests(i)
     /\ (pc = "join" /\ pc' = "returned") => ret' = eplus_events]_vars

\* no call is between giving up and the test of the counter
NoneCounting == \A i \in Items : worker[i].at \notin {"gave_up", "add", "test"}

\* C30: the breaker counts consecutive failures under every interleaving
\* of the workers: a 200 or a 404 sets the count to zero, a sub-fetch that
\* gave up adds exactly one to it, and once max_consecutive_failures
\* sub-fetches have given up with no 200 or 404 in between, the breaker is
\* open as soon as no call is left between giving up and its test.
C30_BreakerCountsConsecutiveFailures ==
  [][/\ \A i \in Items :
          (worker[i].at = "get" /\ worker'[i].at \in {"event", "none"})
            => consecutive_failures' = 0
     /\ \A i \in Items :
          (worker[i].at = "add" /\ worker'[i].at = "test")
            => consecutive_failures' = consecutive_failures + 1
     /\ (tripped /\ NoneCounting)' => circuit_open']_vars

\* C31: the breaker never closes again during the get_events call in which
\* it opened, and every get_events call starts with the breaker closed and
\* the failure count at zero, a second call on the same object too.
C31_BreakerScopedToOneCall ==
  [][/\ (circuit_open /\ calls' = calls) => circuit_open'
     /\ calls' # calls => (~circuit_open' /\ consecutive_failures' = 0)]_vars

\* C32: a fetch that gets a 404 is never retried: the request that got the
\* 404 is the last one sent for the url, the call returns at once, and it
\* does not end as a failure.
C32_NotFoundNeverRetried ==
  \A k \in DOMAIN sent :
    sent[k] = 404 => (k = Len(sent) /\ pc = "returned" /\ ~ret.raised)

\* C33: a call is attempted at most 3 times; the delay before the first
\* retry is the floor, every later delay is twice the one before it or the
\* ceiling; a call that is over has a definite result.
C33_BoundedRetriesWithBackoff ==
  /\ Len(sent) <= 3
  /\ delays # <<>> => delays[1] = (IF arg = "_fetch" THEN wait_min ELSE 1)
  /\ \A k \in 2..Len(delays) :
       delays[k] = Min(2 * delays[k - 1], IF arg = "_fetch" THEN wait_max ELSE max_backoff)
  /\ pc # "request" => ret # None

\* the events collected from the pages of prefecture pf
EventsOf(pf) == SelectSeq(collected, LAMBDA e : e[1] = pf)

\* the pages of the current listing that had items
PagesWithItems ==
  IF page_number = 0 THEN 0
  ELSE IF answer \in {"items", "last"} THEN page_number
  ELSE page_number - 1

\* the loop stopped at the page without items, lost no event of the pages
\* before it and, when it returned, returned them without raising
PagingSafe ==
  /\ (answer = "empty") =>
       (pc = "returned" \/ (arg = "Pia" /\ page_number = 0 /\ pf_code > 1))
  /\ EventsOf(pf_code) = [k \in 1..PagesWithItems |-> <<pf_code, k>>]
  /\ (pc = "returned") => (~ret.raised /\ ret.v = collected)

C35_UpsertedNeverReconciledAway ==
  (log # <<>> /\ log[1].op = "upsert" /\ log[1].ok) =>
    \A i \in DOMAIN log :
      log[i].op = "delete" => log[i].urls \cap log[1].urls = {}

\* the position in batch f of the first event with url u
FirstAt(f, u) ==
  CHOOSE i \in DOMAIN f : f[i].url = u /\ \A j \in 1..(i - 1) : f[j].url # u

\* C36: deduplication is by url and the first event seen wins: once the run
\* has deduplicated its batch of future events, unique_events holds every
\* distinct url of the batch exactly once, the event kept for a url is the
\* first event of the batch with that url, and the kept events stand in the
\* order of their first occurrences.
C36_FirstSeenWins ==
  (pc \in {"upsert", "sync", "reconcile"}) =>
    LET f == FutureEvents(all_events)
    IN /\ UrlsOf(unique_events) = UrlsOf(f)
       /\ \A k \in DOMAIN unique_events, l \in DOMAIN unique_events :
            k # l => unique_events[k].url # unique_events[l].url
       /\ \A k \in DOMAIN unique_events :
            unique_events[k] = f[FirstAt(f, unique_events[k].url)]
       /\ \A k \in DOMAIN unique_events, l \in DOMAIN unique_events :
            k < l => FirstAt(f, unique_events[k].url) < FirstAt(f, unique_events[l].url)

\* a batch with two different future events of one url was deduplicated to
\* the first of them
C36_Witness ==
  /\ pc = "upsert"
  /\ Len(all_events) = 2
  /\ all_events[1].url = all_events[2].url
  /\ all_events[1] # all_events[2]
  /\ unique_events = <<all_events[1]>>

\* C37: the expansion of a listing into its ticket pages fetches each
\* distinct page url at most once, whatever the links between the pages.
C37_EachPageFetchedOnce == \A p \in Pages : fetches[p] <= 1

\* the venue cache holds one id per name, every finished call gave back the
\* cached id of its name, and the venues table holds at most one row per
\* name, with the cached id
CacheConsistent ==
  /\ \A m1 \in venues_map, m2 \in venues_map : m1.name = m2.name => m1 = m2
  /\ \A t \in Threads :
       thread[t].at = "returned" => thread[t].vid = VenueId(venues_map, thread[t].name)
  /\ \A r \in venues :
       /\ VenueId(venues_map, r.variation[1]) = r.id
       /\ \A r2 \in venues : r2.variation = r.variation => r2 = r

Deletes == {i \in DOMAIN log : log[i].op = "delete"}

\* the urls of the source that the run did not find: what is to be deleted
Missing0 ==
  {u \in StoredUrls(store0) : ILike(u, PatternOf(Head(source_url_map).source))}
    \ Head(source_url_map).found

\* C39: the reconciliation deletes in chunks of at most chunk_size urls
\* that cover the to-delete set exactly once; a chunk whose delete fails
\* does not stop the chunks after it; no url found in this run is part of a
\* chunk.  Every delete request names between one and chunk_size urls, all
\* of them to be deleted, no two requests share a url, and when the loop is
\* over the requests together name the whole to-delete set, whichever of
\* them failed, and the rows of the requests that worked are gone.
C39_ChunksCoverToDeleteOnce ==
  /\ \A i \in Deletes :
       /\ log[i].urls # {}
       /\ Cardinality(log[i].urls) <= chunk_size
       /\ log[i].urls \subseteq Missing0
       /\ log[i].urls \cap Head(source_url_map).found = {}
       /\ \A j \in Deletes : j # i => log[j].urls \cap log[i].urls = {}
  /\ (pc = "returned" /\ \A i \in DOMAIN log : log[i].op = "select" => log[i].ok) =>
       /\ UNION {log[i].urls : i \in Deletes} = Missing0
       /\ store = DeleteRows(store0, UNION {log[i].urls : i \in {j \in Deletes : log[j].ok}})

\* the first of two chunks failed, the second one was still deleted
C39_Witness ==
  /\ pc = "returned"
  /\ Cardinality(Deletes) = 2
  /\ \E i \in Deletes, j \in Deletes :
       /\ i < j /\ ~log[i].ok /\ log[j].ok
       /\ log[i].urls \subseteq StoredUrls(store)
       /\ log[j].urls \cap StoredUrls(store) = {}
       /\ Cardinality(log[i].urls) = chunk_size

\* the read of the stored urls is complete: db_urls holds every stored url
\* that matches the source, and no select request follows a delete request
ReadComplete ==
  /\ (pc = "delete" \/ (pc = "returned" /\ \A i \in DOMAIN log : log[i].ok \/ log[i].op # "select")) =>
       db_set = {u \in StoredUrls(store0) : ILike(u, PatternOf(Head(source_url_map).source))}
  /\ \A i \in DOMAIN log, j \in DOMAIN log :
       (log[i].op = "delete" /\ log[j].op = "select") => j < i

\* C40: the paged read of a source's stored urls terminates and returns the
\* complete set of matching stored urls for every number of rows, none and
\* an exact multiple of the page size included, and all pages are read
\* before the first delete request of the source.
C40_PagedReadComplete ==
  /\ []ReadComplete
  /\ <>(pc = "returned")

\* a table whose matching rows fill exactly two pages was read with three
\* select requests, the last of which came back empty
C40_Witness ==
  /\ pc \in {"delete", "returned"}
  /\ Cardinality({u \in StoredUrls(store0) : ILike(u, patterns["Songkick"])}) = 2 * page_size
  /\ Len(log) >= 3
  /\ \A i \in 1..3 : log[i].op = "select" /\ log[i].ok
  /\ log[3].urls = {}
  /\ Cardinality(db_set) = 2 * page_size


====
